---- MODULE Spec2Model ----
(***************************************************************************)
(* Verification model of the CTR feature / training pipeline:              *)
(*   - the temporal feature engine   (mlops/model/preprocess.py)           *)
(*   - the promotion gate            (mlops/evaluation/comparison.py)      *)
(*   - the training run              (train_with_feature_store.py)         *)
(*   - the feature-extraction run    (feature_extraction.py)               *)
(*   - the registry / store access   (mlops/aws/controller.py)             *)
(*                                                                         *)
(* Time is measured in ticks; TicksPerDay ticks make one day, so that a    *)
(* timedelta's ".dt.days" is the floor of the tick difference divided by   *)
(* TicksPerDay.  Probabilities are k / Denom with 0 < k < Denom.           *)
(***************************************************************************)
EXTENDS Integers, Sequences, FiniteSets, TLC

----------------------------------------------------------------------------
(* Bounds of the model *)

MaxImpressions == 2
MaxViews == 2
MaxUser == 2
MaxItem == 2
MaxTime == 4
MaxLookback == 1
TicksPerDay == 2
MaxTestRows == 3
Denom == 3
MaxClock == 1
MaxTrainRuns == 2
MaxExtractRuns == 2
MaxExtractRows == 2
MaxExtractViews == 0
MaxPrepImpressions == 2
MaxPrepViews == 1
MaxPrepTime == 2
MaxItemRows == 2
MaxPrice == 2
MaxColumns == 2
MaxSchemas == 2
MaxTableRows == 1
MaxCell == 1
SplitDenom == 4
MaxSplitRows == 4
MaxSplitTime == 1
MaxStoreItems == 2
MaxRequestTime == 1
MaxRawRows == 2
MaxRawColumns == 2
MaxServeItemRows == 1
MaxFeatureValue == 1
MaxModelRows == 2
HashSize == 3

(* Python's None in place of a version *)
None == -1

(* pandas missing value of a nullable column (absent aggregate) *)
NA == -1

Users == 1..MaxUser
Items == 1..MaxItem
Times == 0..MaxTime

VARIABLES
    \* ---- temporal feature engine (one call of get_impression_feature) ----
    df_impression_log,   \* sequence of [user_id, logged_at]; impression_id = row index
    df_view_log,         \* sequence of [user_id, logged_at, item_id]
    lookback_days,       \* lookback window in days
    df_impression_history, \* filtered self-join rows <<impression_id, impression_id_previous>>
    df_view_history,     \* filtered impression/view join rows <<impression_id, view row>>
    df_feature,          \* result: impression_id -> feature row, or <<>> before the call
    pcFeature,           \* "input" | "done"
    df_item,             \* item master: sequence of [item_id, item_price]
    df_preprocessed,     \* result of apply_preprocess, or <<>> before the call
    pcPreprocess,        \* "input" | "done"
    \* ---- schema coercion (apply_schema and the loop of predict on one table) ----
    df_table,            \* the table given to the coercion: [columns, rows]
    schemas,             \* ordered schema list: sequence of [name, dtype, null_value]
    applied,             \* outcome of apply_schema(df_table, schemas): [error, df]
    applied_again,       \* outcome of apply_schema on the table of applied
    served,              \* outcome of the coercion loop of predict on df_table
    served_again,        \* outcome of the loop of predict on the table of served
    \* ---- chronological split (one call of apply_train_test_split) ----
    df_split,            \* the table to split: sequence of [logged_at]; a row is its index
    test_size,           \* test ratio, numerator over SplitDenom
    valid_size,          \* validation ratio, numerator over SplitDenom
    split,               \* outcome: [error, train, valid, test], splits as row indexes
    \* ---- online prediction (requests to /predict of one predictor process) ----
    feature_version,     \* FEATURE_VERSION of the process: Latest or a version
    ad_request,          \* the request being answered: [user_id, os_version, logged_at]
    user_feature,        \* the record the online feature store returned for it
    lookup,              \* how the lookup ended: "none" | "hit" | "miss" | "failed"
    response,            \* outcome: [error, df], df the row handed to predict_proba
    app_state,           \* what lifespan() yielded: [pc, model_name, model_version, model]
    prediction,          \* what log_prediction recorded for the request: [model_version, model]
    \* ---- data validation (one call of DataFrameSchema.validate) ----
    validation_schema,   \* name of the schema: "impression_log" | "view_log" | "mst_item"
    df_raw,              \* the table handed to validate: [columns, rows]
    validated,           \* outcome of validate: [error, df]
    \* ---- one model object (SGDClassifierModel or LightGBMModel) ----
    model_object,        \* the object: [class, model], model being self.model
    model_call,          \* the last method call on it: [op, error, result]
    model_file,          \* content of the file that save wrote and from_pretrained reads
    \* ---- promotion gate (one call of is_model_better_than_baseline) ----
    y_true,              \* test labels, sequence of 0/1
    y_pred,              \* challenger probabilities, sequence of k (meaning k / Denom)
    y_baseline,          \* baseline probabilities
    gate_result,         \* "none" | "True" | "False" | "ValueError"
    pcGate,              \* "input" | "done"
    \* ---- training runs against the shared registry ----
    clock,               \* wall clock in seconds, datetime.now() truncated by strftime
    registry,            \* model registry table: <<model, version>> -> item
    model_storage,       \* model bucket: <<model, version>> (key of model.pkl) -> model
    train,               \* per training run: the locals of main()
    registered_by,       \* training runs whose put_item reached the registry
    \* ---- feature-extraction runs against the shared feature stores ----
    offline_store,       \* feature bucket: version (partition key) -> feature table
    online_store,        \* online feature table: set of items, keyed by (user_id, version)
    last_put,            \* <<user_id, version>> -> the item of the latest put under that key
    extract              \* per feature-extraction run: the locals of main(), and what it wrote

featureVars == <<df_impression_log, df_view_log, lookback_days,
                 df_impression_history, df_view_history, df_feature, pcFeature,
                 df_item, df_preprocessed, pcPreprocess>>

schemaVars == <<df_table, schemas, applied, applied_again, served, served_again>>

splitVars == <<df_split, test_size, valid_size, split>>

predictVars == <<feature_version, ad_request, user_feature, lookup, response,
                 app_state, prediction>>

validateVars == <<validation_schema, df_raw, validated>>

modelVars == <<model_object, model_call, model_file>>

gateVars == <<y_true, y_pred, y_baseline, gate_result, pcGate>>

trainVars == <<clock, registry, model_storage, train, registered_by>>

extractVars == <<offline_store, online_store, last_put, extract>>

vars == <<featureVars, schemaVars, splitVars, predictVars, validateVars, modelVars,
          gateVars, trainVars, extractVars>>

----------------------------------------------------------------------------
(* Each specification exercises one part; the other parts stay idle *)

FeatureIdle ==
    /\ df_impression_log = <<>>
    /\ df_view_log = <<>>
    /\ lookback_days = 0
    /\ df_impression_history = {}
    /\ df_view_history = {}
    /\ df_feature = <<>>
    /\ pcFeature = "idle"
    /\ df_item = <<>>
    /\ df_preprocessed = <<>>
    /\ pcPreprocess = "idle"

\* no table, no outcome
EmptyTable == [columns |-> <<>>, rows |-> <<>>]
Unset == [error |-> "unset", df |-> EmptyTable]

SchemaIdle ==
    /\ df_table = EmptyTable
    /\ schemas = <<>>
    /\ applied = Unset
    /\ applied_again = Unset
    /\ served = Unset
    /\ served_again = Unset

SplitIdle ==
    /\ df_split = <<>>
    /\ test_size = 0
    /\ valid_size = 0
    /\ split = [error |-> "unset", train |-> <<>>, valid |-> <<>>, test |-> <<>>]

\* no predictor process, no prediction logged
NoApp == [pc |-> "none", model_name |-> "", model_version |-> None, model |-> <<>>]
NoPrediction == [model_version |-> None, model |-> <<>>]

PredictIdle ==
    /\ feature_version = 0
    /\ ad_request = [user_id |-> 0, os_version |-> "", logged_at |-> 0]
    /\ user_feature = <<>>
    /\ lookup = "none"
    /\ response = Unset
    /\ app_state = NoApp
    /\ prediction = NoPrediction

ValidateIdle ==
    /\ validation_schema = ""
    /\ df_raw = EmptyTable
    /\ validated = Unset

ModelIdle ==
    /\ model_object = <<>>
    /\ model_call = <<>>
    /\ model_file = <<>>

GateIdle ==
    /\ y_true = <<>>
    /\ y_pred = <<>>
    /\ y_baseline = <<>>
    /\ gate_result = "none"
    /\ pcGate = "idle"

TrainIdle ==
    /\ clock = 0
    /\ registry = <<>>
    /\ model_storage = <<>>
    /\ train = <<>>
    /\ registered_by = {}

ExtractIdle ==
    /\ offline_store = <<>>
    /\ online_store = {}
    /\ last_put = <<>>
    /\ extract = <<>>

----------------------------------------------------------------------------
(* Evaluation and comparison engine: metrics.py, comparison.py *)

RECURSIVE SumSeq(_)
SumSeq(s) == IF s = <<>> THEN 0 ELSE Head(s) + SumSeq(Tail(s))

RECURSIVE ProdSeq(_)
ProdSeq(s) == IF s = <<>> THEN 1 ELSE Head(s) * ProdSeq(Tail(s))

Abs(x) == IF x < 0 THEN -x ELSE x

Labels == {0, 1}
Probs == 1..(Denom - 1)

\* sklearn's log_loss is -(1/n) * sum(ln p_i) where p_i is the probability the
\* prediction gives to the true label of row i.  With p = k / Denom that is
\* ln(Denom) - ln(likelihood) / n, strictly decreasing in the integer
\* likelihood below, so two log-losses on the same labels compare as the
\* likelihoods compare, reversed.
likelihood(yt, yp) ==
    ProdSeq([i \in 1..Len(yt) |-> IF yt[i] = 1 THEN yp[i] ELSE Denom - yp[i]])

\* log_loss raises ValueError when y_true holds a single label
log_loss_defined(yt) == \E i, j \in 1..Len(yt) : yt[i] # yt[j]

\* logloss <= logloss_baseline
_is_better_logloss(yp, yb, yt) == likelihood(yt, yp) >= likelihood(yt, yb)

\* calibration_score = sum(y_pred) / sum(y_true); with P = sum(y_true) > 0
\* positives, |score - 1| = |sum(k) - Denom * P| / (Denom * P)
calibration_error(yt, yp) == Abs(SumSeq(yp) - Denom * SumSeq(yt))

\* abs(calibration - 1) <= abs(calibration_baseline - 1)
_is_better_calibration(yp, yb, yt) ==
    calibration_error(yt, yp) <= calibration_error(yt, yb)

is_model_better_than_baseline_or(yp, yb, yt) ==
    IF ~log_loss_defined(yt) THEN "ValueError"
    ELSE IF _is_better_logloss(yp, yb, yt) \/ _is_better_calibration(yp, yb, yt)
         THEN "True" ELSE "False"

\* _is_better_logloss(...) and _is_better_calibration(...)
is_model_better_than_baseline(yp, yb, yt) ==
    IF ~log_loss_defined(yt) THEN "ValueError"
    ELSE IF _is_better_logloss(yp, yb, yt) /\ _is_better_calibration(yp, yb, yt)
         THEN "True" ELSE "False"

InitGate ==
    /\ \E n \in 1..MaxTestRows :
          /\ y_true \in [1..n -> Labels]
          /\ y_pred \in [1..n -> Probs]
          /\ y_baseline \in [1..n -> Probs]
    /\ gate_result = "none"
    /\ pcGate = "input"
    /\ FeatureIdle
    /\ TrainIdle
    /\ ExtractIdle
    /\ SchemaIdle
    /\ SplitIdle
    /\ ValidateIdle
    /\ ModelIdle
    /\ PredictIdle

CompareGate ==
    /\ pcGate = "input"
    /\ gate_result' = is_model_better_than_baseline(y_pred, y_baseline, y_true)
    /\ pcGate' = "done"
    /\ UNCHANGED <<y_true, y_pred, y_baseline>>
    /\ UNCHANGED <<featureVars, schemaVars, splitVars, predictVars, validateVars, modelVars, trainVars, extractVars>>

NextGate == CompareGate

SpecGate == InitGate /\ [][NextGate]_vars

\* C3: is_model_better_than_baseline returns true if and only if, on the same
\* test labels, the challenger's log-loss is <= the baseline's AND
\* |challenger calibration - 1| <= |baseline calibration - 1|; improving one
\* metric while regressing the other returns false.
C3_GateIsConjunction ==
    (pcGate = "done" /\ gate_result # "ValueError") =>
        LET P == SumSeq(y_true)
            loglossLE == likelihood(y_true, y_pred) >= likelihood(y_true, y_baseline)
            \* |S_c / P - 1| <= |S_b / P - 1| over the rationals, cross-multiplied
            calibLE == Abs(SumSeq(y_pred) - Denom * P) <= Abs(SumSeq(y_baseline) - Denom * P)
        IN  /\ gate_result \in {"True", "False"}
            /\ (gate_result = "True") <=> (loglossLE /\ calibLE)

\* the challenger improves the log-loss and regresses the calibration, and is rejected
C3_Witness ==
    /\ pcGate = "done"
    /\ gate_result = "False"
    /\ likelihood(y_true, y_pred) > likelihood(y_true, y_baseline)
    /\ calibration_error(y_true, y_pred) > calibration_error(y_true, y_baseline)

----------------------------------------------------------------------------
(* Temporal feature engine: preprocess.py *)

\* bounded sequences over a set
SeqUpTo(S, n) == UNION {[1..k -> S] : k \in 0..n}

ImpressionRows == [user_id : Users, logged_at : Times]
ViewRows == [user_id : Users, logged_at : Times, item_id : Items]

\* (a - b).dt.days : the days component of a timedelta is the floor of the
\* difference in days (negative differences round towards minus infinity)
dt_days(a, b) == (a - b) \div TicksPerDay

\* rows of the self-join of the impression log on user_id that survive the
\* query "(logged_at_previous < logged_at) and (days_between_impressions <= lookback_days)";
\* a row is the pair <<impression_id, impression_id_previous>>
impression_history_not_strict(imps, lb) ==
    {p \in (1..Len(imps)) \X (1..Len(imps)) :
        /\ imps[p[1]].user_id = imps[p[2]].user_id
        /\ imps[p[2]].logged_at <= imps[p[1]].logged_at
        /\ dt_days(imps[p[1]].logged_at, imps[p[2]].logged_at) <= lb}

impression_history(imps, lb) ==
    {p \in (1..Len(imps)) \X (1..Len(imps)) :
        /\ imps[p[1]].user_id = imps[p[2]].user_id
        /\ imps[p[2]].logged_at < imps[p[1]].logged_at
        /\ dt_days(imps[p[1]].logged_at, imps[p[2]].logged_at) <= lb}

\* a count that is 0, not missing, for an impression without a surviving row
_get_impression_history_feature_fillzero(imps, lb) ==
    [i \in 1..Len(imps) |->
        Cardinality({p \in impression_history(imps, lb) : p[1] = i})]

\* groupby("impression_id")["impression_id_previous"].count(): impressions
\* without a surviving row are absent from the aggregate (NA after the left join)
_get_impression_history_feature(imps, lb) ==
    [i \in 1..Len(imps) |->
        LET n == Cardinality({p \in impression_history(imps, lb) : p[1] = i})
        IN  IF n = 0 THEN NA ELSE n]

\* drop_duplicates(subset=["user_id", "logged_at"], keep="last"): indexes kept
drop_duplicates_last(views) ==
    {k \in 1..Len(views) :
        \A m \in (k+1)..Len(views) :
            ~(views[m].user_id = views[k].user_id /\ views[m].logged_at = views[k].logged_at)}

\* rows of the join of the impression log with the de-duplicated view log on
\* user_id that survive the query "(logged_at_view < logged_at_impression) and
\* (days_between_impression_and_session <= lookback_days)";
\* a row is the pair <<impression_id, view row index>>
view_history(imps, views, lb) ==
    {p \in (1..Len(imps)) \X drop_duplicates_last(views) :
        /\ imps[p[1]].user_id = views[p[2]].user_id
        /\ views[p[2]].logged_at < imps[p[1]].logged_at
        /\ dt_days(imps[p[1]].logged_at, views[p[2]].logged_at) <= lb}

MaxOf(S) == CHOOSE x \in S : \A y \in S : y <= x

\* aggregates of an outer join: a count of 0 where no view survives
_get_view_history_feature_count0(imps, views, lb) ==
    [i \in 1..Len(imps) |->
        LET rows == {p[2] : p \in {q \in view_history(imps, views, lb) : q[1] = i}}
        IN  IF rows = {}
            THEN [previous_view_count |-> 0, item_id |-> NA]
            ELSE [previous_view_count |-> Cardinality(rows),
                  item_id |-> views[MaxOf(rows)].item_id]]

\* groupby("impression_id").agg(count, last, last): the merge keeps the right
\* frame's row order inside each impression, so "last" is the surviving view
\* with the greatest row index of the view log
_get_view_history_feature(imps, views, lb) ==
    [i \in 1..Len(imps) |->
        LET rows == {p[2] : p \in {q \in view_history(imps, views, lb) : q[1] = i}}
        IN  IF rows = {}
            THEN [previous_view_count |-> NA, item_id |-> NA]
            ELSE [previous_view_count |-> Cardinality(rows),
                  item_id |-> views[MaxOf(rows)].item_id]]

\* get_impression_feature: left joins of both aggregates onto the impression log
get_impression_feature(imps, views, lb) ==
    LET ih == _get_impression_history_feature(imps, lb)
        vh == _get_view_history_feature(imps, views, lb)
    IN  [i \in 1..Len(imps) |->
            [user_id |-> imps[i].user_id,
             logged_at |-> imps[i].logged_at,
             previous_impression_count |-> ih[i],
             previous_view_count |-> vh[i].previous_view_count,
             item_id |-> vh[i].item_id]]

InitFeature ==
    /\ df_impression_log \in SeqUpTo(ImpressionRows, MaxImpressions)
    /\ df_view_log \in SeqUpTo(ViewRows, MaxViews)
    /\ lookback_days \in 0..MaxLookback
    /\ df_impression_history = {}
    /\ df_view_history = {}
    /\ df_feature = <<>>
    /\ pcFeature = "input"
    /\ df_item = <<>>
    /\ df_preprocessed = <<>>
    /\ pcPreprocess = "idle"
    /\ GateIdle
    /\ TrainIdle
    /\ ExtractIdle
    /\ SchemaIdle
    /\ SplitIdle
    /\ ValidateIdle
    /\ ModelIdle
    /\ PredictIdle

ComputeFeature ==
    /\ pcFeature = "input"
    /\ df_impression_history' = impression_history(df_impression_log, lookback_days)
    /\ df_view_history' = view_history(df_impression_log, df_view_log, lookback_days)
    /\ df_feature' = get_impression_feature(df_impression_log, df_view_log, lookback_days)
    /\ pcFeature' = "done"
    /\ UNCHANGED <<df_impression_log, df_view_log, lookback_days>>
    /\ UNCHANGED <<df_item, df_preprocessed, pcPreprocess>>
    /\ UNCHANGED <<schemaVars, splitVars, predictVars, validateVars, modelVars, gateVars, trainVars, extractVars>>

NextFeature == ComputeFeature

SpecFeature == InitFeature /\ [][NextFeature]_vars

----------------------------------------------------------------------------
(* Claims about the temporal feature engine *)

CountOrNA(S) == IF S = {} THEN NA ELSE Cardinality(S)

\* C1: for every impression i of a batch, every event counted in i's
\* previous_impression_count (other impressions) or previous_view_count
\* (views) belongs to the same user as i and is strictly earlier than i; no
\* event at or after i's timestamp (i itself included) is counted.
C1_NoLeakage ==
    pcFeature = "done" =>
        /\ \A p \in df_impression_history :
              /\ p[2] # p[1]
              /\ df_impression_log[p[2]].user_id = df_impression_log[p[1]].user_id
              /\ df_impression_log[p[2]].logged_at < df_impression_log[p[1]].logged_at
        /\ \A p \in df_view_history :
              /\ df_view_log[p[2]].user_id = df_impression_log[p[1]].user_id
              /\ df_view_log[p[2]].logged_at < df_impression_log[p[1]].logged_at
        /\ \A i \in 1..Len(df_impression_log) :
              /\ df_feature[i].previous_impression_count =
                    CountOrNA({p \in df_impression_history : p[1] = i})
              /\ df_feature[i].previous_view_count =
                    CountOrNA({p \in df_view_history : p[1] = i})

\* an impression that counts one earlier impression and one earlier view while
\* a view of the same user carries the impression's own timestamp
C1_Witness ==
    /\ pcFeature = "done"
    /\ \E i \in 1..Len(df_impression_log) :
          /\ df_feature[i].previous_impression_count = 1
          /\ df_feature[i].previous_view_count = 1
          /\ \E k \in 1..Len(df_view_log) :
                /\ df_view_log[k].user_id = df_impression_log[i].user_id
                /\ df_view_log[k].logged_at = df_impression_log[i].logged_at

\* C2: an earlier same-user event is counted if and only if its age (T minus
\* the event's timestamp) is at most lookback_days days: exactly lookback_days
\* old is counted, lookback_days plus any positive amount is not.
C2_WindowExact ==
    pcFeature = "done" =>
        /\ \A i, j \in 1..Len(df_impression_log) :
              (/\ df_impression_log[j].user_id = df_impression_log[i].user_id
               /\ df_impression_log[j].logged_at < df_impression_log[i].logged_at)
              => (<<i, j>> \in df_impression_history
                    <=> df_impression_log[i].logged_at - df_impression_log[j].logged_at
                          <= lookback_days * TicksPerDay)
        /\ \A i \in 1..Len(df_impression_log) : \A k \in drop_duplicates_last(df_view_log) :
              (/\ df_view_log[k].user_id = df_impression_log[i].user_id
               /\ df_view_log[k].logged_at < df_impression_log[i].logged_at)
              => (<<i, k>> \in df_view_history
                    <=> df_impression_log[i].logged_at - df_view_log[k].logged_at
                          <= lookback_days * TicksPerDay)

\* C23: for every impression with at least one qualifying view, the item_id
\* of its feature row is that of the qualifying view with the greatest
\* timestamp, for any row order of a view log whose timestamps are distinct,
\* and previous_view_count is the number of qualifying views after
\* de-duplication on (user id, timestamp).
C23_LastViewByTimestamp ==
    (/\ pcFeature = "done"
     /\ \A k, m \in 1..Len(df_view_log) :
           k # m => df_view_log[k].logged_at # df_view_log[m].logged_at)
    => \A i \in 1..Len(df_impression_log) :
          LET qualifying == {p[2] : p \in {q \in df_view_history : q[1] = i}}
          IN  qualifying # {} =>
                 /\ df_feature[i].previous_view_count = Cardinality(qualifying)
                 /\ \E k \in qualifying :
                       /\ \A m \in qualifying :
                             df_view_log[m].logged_at <= df_view_log[k].logged_at
                       /\ df_feature[i].item_id = df_view_log[k].item_id

----------------------------------------------------------------------------
(* Feature table with item attributes: apply_preprocess and                *)
(* get_impression_feature with the item master, preprocess.py 15-64        *)

PrepImpressionRows == [user_id : Users, logged_at : 0..MaxPrepTime]
PrepViewRows == [user_id : Users, logged_at : 0..MaxPrepTime, item_id : Items]

\* rows the warehouse can return for mst_item; a price of 0 fails validation
ItemRows == [item_id : Items, item_price : 0..MaxPrice]

\* MST_ITEM_SCHEMA.validate: item_id >= 0 and item_price > 0 in every row
\* (no missing value; item_id is not declared unique)
MST_ITEM_SCHEMA(items) ==
    \A k \in 1..Len(items) : items[k].item_id >= 0 /\ items[k].item_price > 0

\* _get_impression_time_feature: hour (position inside the day), day of month
\* and weekday of logged_at, per impression_id
_get_impression_time_feature(imps) ==
    [i \in 1..Len(imps) |->
        [impression_hour |-> imps[i].logged_at % TicksPerDay,
         impression_day |-> (imps[i].logged_at \div TicksPerDay) + 1,
         impression_weekday |-> (imps[i].logged_at \div TicksPerDay) % 7]]

\* df.merge(df_item, how="left", on="item_id"): the left rows in order, each
\* once per item row with its item_id, or once with missing item attributes
\* when no item row matches (a missing item_id matches nothing: the validated
\* item master has no missing item_id)
RECURSIVE merge_item_id(_, _)
merge_item_id(df, items) ==
    IF df = <<>>
    THEN <<>>
    ELSE LET row == Head(df)
             matched == SelectSeq(items, LAMBDA it : it.item_id = row.item_id)
             out == IF matched = <<>>
                    THEN <<row @@ [item_price |-> NA]>>
                    ELSE [k \in 1..Len(matched) |->
                            row @@ [item_price |-> matched[k].item_price]]
         IN  out \o merge_item_id(Tail(df), items)

\* get_impression_feature with the item master: the history aggregates are
\* left-joined on impression_id (each has one row per impression_id at most),
\* then the item master on item_id
get_impression_feature_with_item(imps, views, items, lb) ==
    LET ih == _get_impression_history_feature(imps, lb)
        vh == _get_view_history_feature(imps, views, lb)
        df == [i \in 1..Len(imps) |->
                 [impression_id |-> i,
                  user_id |-> imps[i].user_id,
                  logged_at |-> imps[i].logged_at,
                  previous_impression_count |-> ih[i],
                  previous_view_count |-> vh[i].previous_view_count,
                  item_id |-> vh[i].item_id]]
    IN  merge_item_id(df, items)

\* inner joins would drop the impressions without view history
apply_preprocess_inner(imps, views, items, lb) ==
    LET tf == _get_impression_time_feature(imps)
        ih == _get_impression_history_feature(imps, lb)
        vh == _get_view_history_feature(imps, views, lb)
        df == [i \in 1..Len(imps) |->
                 [impression_id |-> i,
                  user_id |-> imps[i].user_id,
                  logged_at |-> imps[i].logged_at,
                  impression_hour |-> tf[i].impression_hour,
                  impression_day |-> tf[i].impression_day,
                  impression_weekday |-> tf[i].impression_weekday,
                  previous_impression_count |-> ih[i],
                  previous_view_count |-> vh[i].previous_view_count,
                  item_id |-> vh[i].item_id]]
    IN  merge_item_id(SelectSeq(df, LAMBDA r : r.previous_view_count # NA), items)

\* apply_preprocess: the time features, then the two history aggregates, are
\* left-joined on impression_id, then the item master on item_id
apply_preprocess(imps, views, items, lb) ==
    LET tf == _get_impression_time_feature(imps)
        ih == _get_impression_history_feature(imps, lb)
        vh == _get_view_history_feature(imps, views, lb)
        df == [i \in 1..Len(imps) |->
                 [impression_id |-> i,
                  user_id |-> imps[i].user_id,
                  logged_at |-> imps[i].logged_at,
                  impression_hour |-> tf[i].impression_hour,
                  impression_day |-> tf[i].impression_day,
                  impression_weekday |-> tf[i].impression_weekday,
                  previous_impression_count |-> ih[i],
                  previous_view_count |-> vh[i].previous_view_count,
                  item_id |-> vh[i].item_id]]
    IN  merge_item_id(df, items)

InitPreprocess ==
    /\ df_impression_log \in SeqUpTo(PrepImpressionRows, MaxPrepImpressions)
    /\ df_view_log \in SeqUpTo(PrepViewRows, MaxPrepViews)
    /\ df_item \in SeqUpTo(ItemRows, MaxItemRows)
    /\ lookback_days \in 0..MaxLookback
    /\ df_impression_history = {}
    /\ df_view_history = {}
    /\ df_feature = <<>>
    /\ pcFeature = "input"
    /\ df_preprocessed = <<>>
    /\ pcPreprocess = "input"
    /\ GateIdle
    /\ TrainIdle
    /\ ExtractIdle
    /\ SchemaIdle
    /\ SplitIdle
    /\ ValidateIdle
    /\ ModelIdle
    /\ PredictIdle

\* one call of apply_preprocess on the batch
ApplyPreprocess ==
    /\ pcPreprocess = "input"
    /\ df_preprocessed' = apply_preprocess(df_impression_log, df_view_log, df_item, lookback_days)
    /\ pcPreprocess' = "done"
    /\ UNCHANGED <<df_impression_log, df_view_log, df_item, lookback_days,
                   df_impression_history, df_view_history, df_feature, pcFeature>>
    /\ UNCHANGED <<schemaVars, splitVars, predictVars, validateVars, modelVars, gateVars, trainVars, extractVars>>

\* one call of get_impression_feature on the same batch
GetImpressionFeature ==
    /\ pcFeature = "input"
    /\ df_feature' = get_impression_feature_with_item(df_impression_log, df_view_log,
                                                      df_item, lookback_days)
    /\ pcFeature' = "done"
    /\ UNCHANGED <<df_impression_log, df_view_log, df_item, lookback_days,
                   df_impression_history, df_view_history, df_preprocessed, pcPreprocess>>
    /\ UNCHANGED <<schemaVars, splitVars, predictVars, validateVars, modelVars, gateVars, trainVars, extractVars>>

NextPreprocess == ApplyPreprocess \/ GetImpressionFeature

SpecPreprocess == InitPreprocess /\ [][NextPreprocess]_vars

\* the columns both feature tables carry
SharedColumns ==
    {"impression_id", "user_id", "logged_at", "previous_impression_count",
     "previous_view_count", "item_id", "item_price"}

Project(row, columns) == [c \in columns |-> row[c]]

\* C14: for the same input batch (impressions, views, items, lookback), the
\* tables of apply_preprocess and of get_impression_feature have the same rows
\* in the same order, with identical values in every column they share, for
\* every impression id.
C14_PathsAgree ==
    (pcPreprocess = "done" /\ pcFeature = "done") =>
        /\ Len(df_preprocessed) = Len(df_feature)
        /\ \A k \in 1..Len(df_feature) :
              /\ DOMAIN df_feature[k] = SharedColumns
              /\ Project(df_preprocessed[k], SharedColumns) = df_feature[k]

\* both paths ran on a batch where one impression has view history and an
\* item match and another impression has neither
C14_Witness ==
    /\ pcPreprocess = "done" /\ pcFeature = "done"
    /\ \E k, m \in 1..Len(df_feature) :
          /\ df_feature[k].previous_view_count = 1
          /\ df_feature[k].item_price # NA
          /\ df_feature[m].previous_view_count = NA
          /\ df_feature[m].item_price = NA

\* C15: given unique impression ids and tables that pass validation, the
\* feature table of apply_preprocess and of get_impression_feature contains
\* exactly one row per impression id of the input: none dropped, none
\* duplicated by the joins.
C15_OneRowPerImpression ==
    MST_ITEM_SCHEMA(df_item) =>
        \A i \in 1..Len(df_impression_log) :
            /\ pcFeature = "done" =>
                  Cardinality({k \in 1..Len(df_feature) : df_feature[k].impression_id = i}) = 1
            /\ pcPreprocess = "done" =>
                  Cardinality({k \in 1..Len(df_preprocessed) :
                                  df_preprocessed[k].impression_id = i}) = 1

\* impressions and views of the batch that qualify as history of impression i
PriorImpressions(i) ==
    {j \in 1..Len(df_impression_log) :
        /\ df_impression_log[j].user_id = df_impression_log[i].user_id
        /\ df_impression_log[j].logged_at < df_impression_log[i].logged_at
        /\ dt_days(df_impression_log[i].logged_at, df_impression_log[j].logged_at)
              <= lookback_days}

PriorViews(i) ==
    {k \in 1..Len(df_view_log) :
        /\ df_view_log[k].user_id = df_impression_log[i].user_id
        /\ df_view_log[k].logged_at < df_impression_log[i].logged_at
        /\ dt_days(df_impression_log[i].logged_at, df_view_log[k].logged_at)
              <= lookback_days}

\* what C24 asks of one feature table
NullWithoutHistory(df) ==
    \A k \in 1..Len(df) :
        /\ PriorImpressions(df[k].impression_id) = {} =>
              df[k].previous_impression_count = NA
        /\ PriorViews(df[k].impression_id) = {} =>
              /\ df[k].previous_view_count = NA
              /\ df[k].item_id = NA
              /\ df[k].item_price = NA
        /\ df[k].previous_impression_count # NA => df[k].previous_impression_count >= 1
        /\ df[k].previous_view_count # NA => df[k].previous_view_count >= 1

\* C24: an impression with no qualifying prior impression has
\* previous_impression_count null (never 0), and one with no qualifying prior
\* view has previous_view_count, item_id and the item attributes null;
\* whenever a history count is non-null it is at least 1.
C24_NoHistoryIsNull ==
    /\ pcPreprocess = "done" => NullWithoutHistory(df_preprocessed)
    /\ pcFeature = "done" => NullWithoutHistory(df_feature)

\* both tables were computed for a batch in which one impression has no
\* history at all and another has an earlier impression and an earlier view
C24_Witness ==
    /\ pcPreprocess = "done" /\ pcFeature = "done"
    /\ \E k, m \in 1..Len(df_preprocessed) :
          /\ df_preprocessed[k].previous_impression_count = NA
          /\ df_preprocessed[k].previous_view_count = NA
          /\ df_preprocessed[m].previous_impression_count = 1
          /\ df_preprocessed[m].previous_view_count = 1

\* what C25 asks of one feature table
EmptyBatchResult(df) ==
    /\ df_impression_log = <<>> => df = <<>>
    /\ df_view_log = <<>> =>
          /\ \A i \in 1..Len(df_impression_log) : \E k \in 1..Len(df) :
                 df[k].impression_id = i
          /\ \A k \in 1..Len(df) :
                 /\ df[k].previous_view_count = NA
                 /\ df[k].item_id = NA
                 /\ df[k].item_price = NA

\* C25: if the impression batch or the view batch is empty, the feature
\* computation still completes: both functions can be applied, with an empty
\* view batch every impression keeps its row and its view aggregates are
\* null, and with an empty impression batch the result has no rows.
C25_EmptyBatchCompletes ==
    /\ (pcPreprocess = "input" /\ (df_impression_log = <<>> \/ df_view_log = <<>>))
          => ENABLED ApplyPreprocess
    /\ (pcFeature = "input" /\ (df_impression_log = <<>> \/ df_view_log = <<>>))
          => ENABLED GetImpressionFeature
    /\ pcPreprocess = "done" => EmptyBatchResult(df_preprocessed)
    /\ pcFeature = "done" => EmptyBatchResult(df_feature)

\* both functions ran on two impressions and no view: the later impression
\* counts the earlier one, and the view aggregates are missing
C25_Witness ==
    /\ pcPreprocess = "done" /\ pcFeature = "done"
    /\ df_view_log = <<>>
    /\ Len(df_preprocessed) = 2
    /\ \E k \in 1..2 :
          /\ df_preprocessed[k].previous_impression_count = 1
          /\ df_feature[k].previous_view_count = NA

----------------------------------------------------------------------------
(* Schema coercion: apply_schema (preprocess.py 69-77) and the loop of     *)
(* predict (predictor.py 99-107)                                           *)

\* A cell of a table: an integer, a string, or a missing value (np.nan).
\* A string is either the decimal text of a number (w = "") or a word.
IntCell(n) == [t |-> "int", n |-> n, w |-> ""]
ToStr(n) == [t |-> "str", n |-> n, w |-> ""]
Word(w) == [t |-> "str", n |-> 0, w |-> w]
NaN == [t |-> "nan", n |-> 0, w |-> ""]

Range(f) == {f[i] : i \in DOMAIN f}

\* sequences without repetition
DistinctSeqs(S, n) == {q \in SeqUpTo(S, n) : \A i, j \in DOMAIN q : i # j => q[i] # q[j]}

\* the schema entries of sgd_classifier_ctr this model carries, and a column
\* no schema declares (the target)
DeclaredSchemas ==
    {[name |-> "user_id", dtype |-> "int", null_value |-> IntCell(-1)],
     [name |-> "os_version", dtype |-> "str", null_value |-> Word("null")],
     [name |-> "item_id", dtype |-> "int", null_value |-> IntCell(-1)]}

ColumnNames == {"user_id", "os_version", "item_id", "is_click"}

CellValues == {IntCell(n) : n \in 0..MaxCell} \cup {ToStr(n) : n \in 0..MaxCell}
                 \cup {Word("old"), NaN}

\* tables of 1..n rows over up to m distinct columns out of names
Tables(names, m, n) ==
    UNION {[columns : {cols}, rows : UNION {[1..k -> [Range(cols) -> CellValues]] :
                                               k \in 1..n}] :
              cols \in DistinctSeqs(names, m)}

\* Series.fillna(null_value)
fillna(cell, null_value) == IF cell = NaN THEN null_value ELSE cell

\* Series.astype(dtype) raises ValueError on a word or a missing value cast
\* to int
CanCast(cell, dtype) ==
    dtype \in {"str", "category"} \/ cell.t = "int" \/ (cell.t = "str" /\ cell.w = "")

\* a cast to str that quotes what is already a string
astype_repr(cell, dtype) ==
    IF dtype = "int"
    THEN IntCell(cell.n)
    ELSE IF cell.t = "int" THEN ToStr(cell.n) ELSE Word("'" \o cell.w \o "'")

\* Series.astype(dtype) of one cell: "int" parses a decimal text, "str"
\* formats an integer and turns a missing value into the word "nan",
\* "category" keeps every value as it is (a text stays a text, a number a
\* number) and makes the distinct values the categories
astype(cell, dtype) ==
    IF dtype = "int"
    THEN IntCell(cell.n)
    ELSE IF dtype = "category" THEN cell
    ELSE IF cell.t = "int" THEN ToStr(cell.n)
         ELSE IF cell.t = "nan" THEN Word("nan") ELSE cell

\* df[name] = df[name].fillna(null_value); df[name] = df[name].astype(dtype)
\* on a table that has the column; ValueError when a cell cannot be cast
coerce_column(df, schema) ==
    LET filled == [r \in DOMAIN df.rows |->
                     [df.rows[r] EXCEPT ![schema.name] = fillna(@, schema.null_value)]]
    IN  IF \E r \in DOMAIN filled : ~CanCast(filled[r][schema.name], schema.dtype)
        THEN [error |-> "ValueError", df |-> EmptyTable]
        ELSE [error |-> "none",
              df |-> [columns |-> df.columns,
                      rows |-> [r \in DOMAIN filled |->
                                  [filled[r] EXCEPT ![schema.name] = astype(@, schema.dtype)]]]]

\* apply_schema: for each schema in order fill and cast df[schema.name];
\* df[schema.name] of an absent column raises KeyError; the table is returned
\* with its columns as they were
RECURSIVE apply_schema(_, _)
apply_schema(df, ss) ==
    IF ss = <<>>
    THEN [error |-> "none", df |-> df]
    ELSE IF Head(ss).name \notin Range(df.columns)
         THEN [error |-> "KeyError", df |-> EmptyTable]
         ELSE LET step == coerce_column(df, Head(ss))
              IN  IF step.error # "none" THEN step ELSE apply_schema(step.df, Tail(ss))

\* df[schema.name] = np.nan for a column the table lacks: appended last
materialize(df, name) ==
    [columns |-> Append(df.columns, name),
     rows |-> [r \in DOMAIN df.rows |-> df.rows[r] @@ (name :> NaN)]]

\* the for loop of predict: materialize an absent column, then fill and cast
RECURSIVE predict_loop(_, _)
predict_loop(df, ss) ==
    IF ss = <<>>
    THEN [error |-> "none", df |-> df]
    ELSE LET present == IF Head(ss).name \in Range(df.columns)
                        THEN df ELSE materialize(df, Head(ss).name)
             step == coerce_column(present, Head(ss))
         IN  IF step.error # "none" THEN step ELSE predict_loop(step.df, Tail(ss))

\* df[[schema.name for schema in schemas]]
select_columns(df, ss) ==
    LET names == [i \in DOMAIN ss |-> ss[i].name]
    IN  [columns |-> names,
         rows |-> [r \in DOMAIN df.rows |-> [c \in Range(names) |-> df.rows[r][c]]]]

\* the loop without the final column selection
predict_coercion_unselected(df, ss) == predict_loop(df, ss)

\* a coercion that indexes the declared columns as apply_schema does
predict_coercion_keyerror(df, ss) ==
    LET looped == apply_schema(df, ss)
    IN  IF looped.error # "none" THEN looped
        ELSE [error |-> "none", df |-> select_columns(looped.df, ss)]

\* predict, lines 99-107: the loop, then the selection of the declared
\* columns in the declared order
predict_coercion(df, ss) ==
    LET looped == predict_loop(df, ss)
    IN  IF looped.error # "none" THEN looped
        ELSE [error |-> "none", df |-> select_columns(looped.df, ss)]

InitSchema ==
    /\ df_table \in Tables(ColumnNames, MaxColumns, MaxTableRows)
    /\ schemas \in DistinctSeqs(DeclaredSchemas, MaxSchemas)
    /\ applied = Unset
    /\ applied_again = Unset
    /\ served = Unset
    /\ served_again = Unset
    /\ FeatureIdle
    /\ GateIdle
    /\ TrainIdle
    /\ ExtractIdle
    /\ SplitIdle
    /\ ValidateIdle
    /\ ModelIdle
    /\ PredictIdle

SchemaFrame == UNCHANGED <<featureVars, splitVars, predictVars, validateVars, modelVars, gateVars, trainVars, extractVars>>

\* training time: apply_schema on the table
ApplySchema ==
    /\ applied = Unset
    /\ applied' = apply_schema(df_table, schemas)
    /\ UNCHANGED <<df_table, schemas, applied_again, served, served_again>>
    /\ SchemaFrame

\* apply_schema on the table it returned
ApplySchemaAgain ==
    /\ applied.error = "none"
    /\ applied_again = Unset
    /\ applied_again' = apply_schema(applied.df, schemas)
    /\ UNCHANGED <<df_table, schemas, applied, served, served_again>>
    /\ SchemaFrame

\* serving time: the coercion of predict on the table
PredictCoercion ==
    /\ served = Unset
    /\ served' = predict_coercion(df_table, schemas)
    /\ UNCHANGED <<df_table, schemas, applied, applied_again, served_again>>
    /\ SchemaFrame

\* the coercion of predict on the table it produced
PredictCoercionAgain ==
    /\ served.error = "none"
    /\ served_again = Unset
    /\ served_again' = predict_coercion(served.df, schemas)
    /\ UNCHANGED <<df_table, schemas, applied, applied_again, served>>
    /\ SchemaFrame

NextSchema == ApplySchema \/ ApplySchemaAgain \/ PredictCoercion \/ PredictCoercionAgain

SpecSchema == InitSchema /\ [][NextSchema]_vars

\* the declared column names, in the declared order
DeclaredNames == [i \in DOMAIN schemas |-> schemas[i].name]

\* every declared column is a column of the input table
AllDeclaredPresent == Range(DeclaredNames) \subseteq Range(df_table.columns)

\* some declared int column of the input table holds a word
Uncastable ==
    \E i \in DOMAIN schemas : \E r \in DOMAIN df_table.rows :
        /\ schemas[i].dtype = "int"
        /\ schemas[i].name \in Range(df_table.columns)
        /\ df_table.rows[r][schemas[i].name].t = "str"
        /\ df_table.rows[r][schemas[i].name].w # ""

\* the table has exactly the declared columns in the declared order, no
\* missing value, and the default in every column the input lacks
ExactlyDeclared(df) ==
    /\ df.columns = DeclaredNames
    /\ \A r \in DOMAIN df.rows : \A i \in DOMAIN schemas :
          LET c == schemas[i].name
          IN  /\ df.rows[r][c] # NaN
              /\ df.rows[r][c].t = schemas[i].dtype
              /\ c \notin Range(df_table.columns) => df.rows[r][c] = schemas[i].null_value
              /\ (c \in Range(df_table.columns) /\ df_table.rows[r][c] = NaN)
                    => df.rows[r][c] = schemas[i].null_value
              /\ (c \in Range(df_table.columns) /\ df_table.rows[r][c].t = schemas[i].dtype)
                    => df.rows[r][c] = df_table.rows[r][c]

\* C16 as stated: for any input table whose cells can be cast and any ordered
\* schema list, the coercion of training time (apply_schema) and of serving
\* time (the loop of predict) each yield a table with exactly the declared
\* columns in the declared order and no missing value, a declared column
\* absent from the input being materialized with its default; and both give
\* the same result.
C16_ExactlyDeclaredAtBothSites ==
    ~Uncastable =>
        /\ applied # Unset => (applied.error = "none" /\ ExactlyDeclared(applied.df))
        /\ served # Unset => (served.error = "none" /\ ExactlyDeclared(served.df))
        /\ (applied # Unset /\ served # Unset) => applied = served

\* C16 as amended: the loop of predict yields exactly the declared columns in
\* the declared order, no missing value, defaults in the columns the input
\* lacks (ValueError exactly when a declared int column holds a word).
\* apply_schema raises KeyError when a declared column is absent; when all are
\* present it fills and casts the declared columns in place, keeps every
\* other column and the column order, and agrees with the loop of predict on
\* every declared column.
C16_CoercionBySite ==
    /\ served # Unset =>
          /\ served.error = (IF Uncastable THEN "ValueError" ELSE "none")
          /\ served.error = "none" => ExactlyDeclared(served.df)
    /\ applied # Unset =>
          /\ (applied.error = "none") <=> (AllDeclaredPresent /\ ~Uncastable)
          /\ (~AllDeclaredPresent /\ ~Uncastable) => applied.error = "KeyError"
          /\ (AllDeclaredPresent /\ Uncastable) => applied.error = "ValueError"
          /\ applied.error = "none" =>
                /\ applied.df.columns = df_table.columns
                /\ \A r \in DOMAIN df_table.rows :
                      \A c \in Range(df_table.columns) \ Range(DeclaredNames) :
                          applied.df.rows[r][c] = df_table.rows[r][c]
                /\ served # Unset =>
                      /\ served.error = "none"
                      /\ select_columns(applied.df, schemas) = served.df

\* both sites ran on a table that lacks a declared column and holds a missing
\* value in a declared one: predict materialized and filled, apply_schema
\* raised KeyError
C16_Witness ==
    /\ applied.error = "KeyError"
    /\ served.error = "none"
    /\ \E i, j \in DOMAIN schemas :
          /\ schemas[i].name \notin Range(df_table.columns)
          /\ schemas[j].name \in Range(df_table.columns)
          /\ df_table.rows[1][schemas[j].name] = NaN
          /\ served.df.rows[1][schemas[j].name] = schemas[j].null_value
          /\ served.df.rows[1][schemas[i].name] = schemas[i].null_value

----------------------------------------------------------------------------
(* Data validation: the pandera schemas of data_validator/schema.py, each   *)
(* strict=True, coerce=True, every column required and not nullable         *)

\* a column of a schema: its name, the type it is coerced to, its check and
\* whether its values must be unique
SchemaColumn(name, dtype, check, unique) ==
    [name |-> name, dtype |-> dtype, check |-> check, unique |-> unique]

\* the columns of the three schemas this model carries
IMPRESSION_LOG_SCHEMA ==
    <<SchemaColumn("impression_id", "str", "none", TRUE),
      SchemaColumn("user_id", "int", "greater_than_or_equal_to_0", FALSE)>>

VIEW_LOG_SCHEMA ==
    <<SchemaColumn("device_type", "str", "isin_device_types", FALSE),
      SchemaColumn("item_id", "int", "greater_than_or_equal_to_0", FALSE)>>

MST_ITEM_SCHEMA_columns ==
    <<SchemaColumn("item_id", "int", "greater_than_or_equal_to_0", FALSE),
      SchemaColumn("item_price", "int", "greater_than_0", FALSE)>>

SchemaNames == {"impression_log", "view_log", "mst_item"}

DataFrameSchema(name) ==
    CASE name = "impression_log" -> IMPRESSION_LOG_SCHEMA
      [] name = "view_log" -> VIEW_LOG_SCHEMA
      [] name = "mst_item" -> MST_ITEM_SCHEMA_columns

\* cells the warehouse can return: integers, a decimal text, a word, a
\* missing value
RawCells == {IntCell(-1), IntCell(0), IntCell(1), ToStr(1), Word("web"), NaN}

\* tables of up to MaxRawRows rows over up to MaxRawColumns distinct columns
\* out of the columns of the schema and one column it does not declare
RawTables(name) ==
    LET names == {DataFrameSchema(name)[i].name : i \in DOMAIN DataFrameSchema(name)}
                    \cup {"extra"}
    IN  UNION {[columns : {cols},
                rows : UNION {[1..k -> [Range(cols) -> RawCells]] : k \in 0..MaxRawRows}] :
                  cols \in DistinctSeqs(names, MaxRawColumns)}

\* coerce=True: the column is cast to the declared type; a word is no
\* integer; a missing value stays missing (and then fails: not nullable)
CanCoerce(cell, dtype) ==
    /\ cell # NaN
    /\ dtype = "int" => (cell.t = "int" \/ cell.w = "")

coerce(cell, dtype) ==
    IF dtype = "int" THEN IntCell(cell.n)
    ELSE IF cell.t = "int" THEN ToStr(cell.n) ELSE cell

\* Check.greater_than_or_equal_to(0), Check.greater_than(0), Check.isin([...])
Check(check, cell) ==
    CASE check = "none" -> TRUE
      [] check = "greater_than_or_equal_to_0" -> cell.n >= 0
      [] check = "greater_than_0" -> cell.n > 0
      [] check = "isin_device_types" -> cell.w \in {"android", "iphone", "web"}

SchemaError == [error |-> "SchemaError", df |-> EmptyTable]

\* the coerced rows of a table that has exactly the declared columns
coerced_rows(schema, df) ==
    [r \in DOMAIN df.rows |->
        [c \in Range(df.columns) |->
            LET col == CHOOSE x \in Range(schema) : x.name = c
            IN  coerce(df.rows[r][c], col.dtype)]]

\* a row passes when every cell can be coerced and passes its column's check
row_valid(schema, df, r) ==
    \A i \in DOMAIN schema :
        /\ CanCoerce(df.rows[r][schema[i].name], schema[i].dtype)
        /\ Check(schema[i].check, coerce(df.rows[r][schema[i].name], schema[i].dtype))

\* unique=True: no value of the column occurs twice
unique_ok(schema, rows) ==
    \A i \in DOMAIN schema :
        schema[i].unique =>
            \A r, q \in DOMAIN rows : r # q => rows[r][schema[i].name] # rows[q][schema[i].name]

\* validation that drops the rows that fail instead of raising
validate_drop_invalid_rows(schema, df) ==
    IF Range(df.columns) # {schema[i].name : i \in DOMAIN schema}
    THEN SchemaError
    ELSE LET kept == SelectSeq([r \in DOMAIN df.rows |-> r],
                               LAMBDA r : row_valid(schema, df, r))
             rows == [k \in DOMAIN kept |-> coerced_rows(schema, df)[kept[k]]]
         IN  IF ~unique_ok(schema, rows)
             THEN SchemaError
             ELSE [error |-> "none", df |-> [columns |-> df.columns, rows |-> rows]]

\* DataFrameSchema.validate(df): SchemaError on a column the schema does not
\* declare or a declared column that is absent (strict, required), on a cell
\* that cannot be coerced or is missing, on a failed check and on a repeated
\* value of a unique column; else the coerced table, rows and columns in the
\* order of the input
validate(schema, df) ==
    IF Range(df.columns) # {schema[i].name : i \in DOMAIN schema}
    THEN SchemaError
    ELSE IF \E r \in DOMAIN df.rows : ~row_valid(schema, df, r)
         THEN SchemaError
         ELSE LET rows == coerced_rows(schema, df)
              IN  IF ~unique_ok(schema, rows)
                  THEN SchemaError
                  ELSE [error |-> "none", df |-> [columns |-> df.columns, rows |-> rows]]

InitValidate ==
    /\ validation_schema \in SchemaNames
    /\ df_raw \in RawTables(validation_schema)
    /\ validated = Unset
    /\ FeatureIdle
    /\ SchemaIdle
    /\ SplitIdle
    /\ PredictIdle
    /\ ModelIdle
    /\ GateIdle
    /\ TrainIdle
    /\ ExtractIdle

\* one call of schema.validate(df)
Validate ==
    /\ validated = Unset
    /\ validated' = validate(DataFrameSchema(validation_schema), df_raw)
    /\ UNCHANGED <<validation_schema, df_raw>>
    /\ UNCHANGED <<featureVars, schemaVars, splitVars, predictVars, modelVars,
                   gateVars, trainVars, extractVars>>

NextValidate == Validate

SpecValidate == InitValidate /\ [][NextValidate]_vars

\* C21: validating a table against IMPRESSION_LOG_SCHEMA, VIEW_LOG_SCHEMA or
\* MST_ITEM_SCHEMA either raises or returns a table with exactly as many rows
\* as the input (and the input's columns): a successful validation never adds
\* or drops a row.
C21_ValidationKeepsRows ==
    validated # Unset =>
        /\ validated.error \in {"none", "SchemaError"}
        /\ validated.error = "none" =>
              /\ Len(validated.df.rows) = Len(df_raw.rows)
              /\ validated.df.columns = df_raw.columns

\* a validation that succeeded on a table of two rows and coerced a cell,
\* for a schema with a unique column
C21_Witness ==
    /\ validated # Unset
    /\ validated.error = "none"
    /\ validation_schema = "impression_log"
    /\ Len(df_raw.rows) = 2
    /\ validated.df # df_raw

----------------------------------------------------------------------------
(* Chronological split: apply_train_test_split, preprocess.py 82-99        *)

\* ratios are k / SplitDenom; the numerators reach below 0 and above 1
Ratios == (-1)..(SplitDenom + 1)

SplitRows == [logged_at : 0..MaxSplitTime]

NoSplit == [error |-> "ValueError", train |-> <<>>, valid |-> <<>>, test |-> <<>>]

\* ceil(a / b) for a >= 0, b > 0
Ceil(a, b) == (a + b - 1) \div b

\* df.sort_values(by="logged_at"): the rows in ascending logged_at; the
\* default sort is not stable, so rows of equal logged_at come in any order.
\* The result is the set of possible orders (sequences of row indexes).
sort_values(df) ==
    {p \in [1..Len(df) -> 1..Len(df)] :
        /\ \A i, j \in 1..Len(df) : i # j => p[i] # p[j]
        /\ \A i, j \in 1..Len(df) : i < j => df[p[i]].logged_at <= df[p[j]].logged_at}

\* a split that takes the test rows from the head of the table
train_test_split_head(rows, k) ==
    LET n == Len(rows)
        n_test == Ceil(k * n, SplitDenom)
        n_train == n - n_test
    IN  IF k <= 0 \/ k >= SplitDenom \/ n_train = 0
        THEN [error |-> "ValueError", train |-> <<>>, test |-> <<>>]
        ELSE [error |-> "none",
              train |-> SubSeq(rows, n_test + 1, n),
              test |-> SubSeq(rows, 1, n_test)]

\* a split that does not reject an empty train part
train_test_split_unchecked(rows, k) ==
    LET n == Len(rows)
        n_test == Ceil(k * n, SplitDenom)
        n_train == n - n_test
    IN  IF k <= 0 \/ k >= SplitDenom
        THEN [error |-> "ValueError", train |-> <<>>, test |-> <<>>]
        ELSE [error |-> "none",
              train |-> SubSeq(rows, 1, n_train),
              test |-> SubSeq(rows, n_train + 1, n)]

\* sklearn train_test_split(rows, test_size=k/SplitDenom, shuffle=False) with
\* a float test_size: ValueError unless 0 < test_size < 1; n_test is
\* ceil(test_size * n), n_train the rest; ValueError when n_train is 0; the
\* first n_train rows are the train part, the following n_test the test part
train_test_split(rows, k) ==
    LET n == Len(rows)
        n_test == Ceil(k * n, SplitDenom)
        n_train == n - n_test
    IN  IF k <= 0 \/ k >= SplitDenom \/ n_train = 0
        THEN [error |-> "ValueError", train |-> <<>>, test |-> <<>>]
        ELSE [error |-> "none",
              train |-> SubSeq(rows, 1, n_train),
              test |-> SubSeq(rows, n_train + 1, n)]

\* apply_train_test_split on the sorted table: test is cut off first, then
\* valid off the remainder; an error of either cut propagates
apply_train_test_split(sorted, t, v) ==
    LET first == train_test_split(sorted, t)
    IN  IF first.error # "none"
        THEN NoSplit
        ELSE LET second == train_test_split(first.train, v)
             IN  IF second.error # "none"
                 THEN NoSplit
                 ELSE [error |-> "none", train |-> second.train,
                       valid |-> second.test, test |-> first.test]

InitSplit ==
    /\ df_split \in SeqUpTo(SplitRows, MaxSplitRows)
    /\ test_size \in Ratios
    /\ valid_size \in Ratios
    /\ split = [error |-> "unset", train |-> <<>>, valid |-> <<>>, test |-> <<>>]
    /\ ValidateIdle
    /\ ModelIdle
    /\ FeatureIdle
    /\ SchemaIdle
    /\ PredictIdle
    /\ GateIdle
    /\ TrainIdle
    /\ ExtractIdle

\* one call of apply_train_test_split(df_split, test_size, valid_size)
ApplyTrainTestSplit ==
    /\ split.error = "unset"
    /\ \E sorted \in sort_values(df_split) :
          split' = apply_train_test_split(sorted, test_size, valid_size)
    /\ UNCHANGED <<df_split, test_size, valid_size>>
    /\ UNCHANGED <<featureVars, schemaVars, predictVars, validateVars, modelVars, gateVars, trainVars, extractVars>>

NextSplit == ApplyTrainTestSplit

SpecSplit == InitSplit /\ [][NextSplit]_vars

\* C18: the three splits of apply_train_test_split together contain every
\* input row exactly once (the lengths add up to the input's) and respect
\* timestamp order, oldest rows in train and newest in test: no row of train
\* is later than a row of valid or test, no row of valid later than a row of
\* test.
C18_SplitPartitionsInOrder ==
    split.error = "none" =>
        LET all == split.train \o split.valid \o split.test
        IN  /\ Len(split.train) + Len(split.valid) + Len(split.test) = Len(df_split)
            /\ Range(all) = 1..Len(df_split)
            /\ \A i, j \in 1..Len(all) : i # j => all[i] # all[j]
            /\ \A a \in Range(split.train) : \A b \in Range(split.valid) \cup Range(split.test) :
                  df_split[a].logged_at <= df_split[b].logged_at
            /\ \A b \in Range(split.valid) : \A c \in Range(split.test) :
                  df_split[b].logged_at <= df_split[c].logged_at

\* a split of rows given out of timestamp order, with equal timestamps on
\* both sides of a cut and more than one row in train
C18_Witness ==
    /\ split.error = "none"
    /\ Len(split.train) > 1
    /\ \E i \in 1..(Len(df_split) - 1) : df_split[i].logged_at > df_split[i + 1].logged_at
    /\ \E a \in Range(split.train) : \E b \in Range(split.valid) :
          df_split[a].logged_at = df_split[b].logged_at

InUnitInterval(k) == 0 < k /\ k < SplitDenom

\* C19 as stated: apply_train_test_split signals an error, and returns no
\* split, whenever test_size or valid_size is not in the open interval (0,1)
\* or the two ratios together leave a non-positive train fraction
\* (1 - test_size - valid_size <= 0).
C19_ErrorOnInvalidRatios ==
    (/\ split.error # "unset"
     /\ \/ ~InUnitInterval(test_size)
        \/ ~InUnitInterval(valid_size)
        \/ SplitDenom - test_size - valid_size <= 0)
    => split = NoSplit

\* C19 as amended: apply_train_test_split signals an error, and returns no
\* split, exactly when test_size or valid_size is not in the open interval
\* (0,1) or a cut leaves its train side empty: ceil(test_size * n) = n for the
\* n input rows, or ceil(valid_size * m) = m for the m rows left of the test
\* cut.  The sum of the ratios is not checked.
C19_ErrorOnInvalidRatioOrEmptyTrain ==
    split.error # "unset" =>
        LET n == Len(df_split)
            m == n - Ceil(test_size * n, SplitDenom)
        IN  /\ split.error \in {"none", "ValueError"}
            /\ (split.error = "ValueError") <=>
                  \/ ~InUnitInterval(test_size)
                  \/ ~InUnitInterval(valid_size)
                  \/ m = 0
                  \/ m - Ceil(valid_size * m, SplitDenom) = 0
            /\ split.error = "ValueError" => split = NoSplit
            /\ split.error = "none" => (split.train # <<>> /\ split.valid # <<>> /\ split.test # <<>>)

\* the ratios add up to 1, leaving no train fraction, and the rows are split
\* all the same
C19_Witness ==
    /\ split.error = "none"
    /\ InUnitInterval(test_size) /\ InUnitInterval(valid_size)
    /\ test_size + valid_size >= SplitDenom

----------------------------------------------------------------------------
(* Model objects: SGDClassifierModel (models/sgd_classifier.py) and         *)
(* LightGBMModel (models/lightgbm.py), one object and its method calls      *)

ModelClasses == {"SGDClassifierModel", "LightGBMModel"}

\* self.model: None, or a fitted estimator, represented by the inputs it
\* learnt as positive
NoModel == [fitted |-> FALSE, positive |-> {}]

\* feature tables: 1..MaxModelRows rows of one feature value; labels
FeatureTables == UNION {[1..n -> 0..MaxFeatureValue] : n \in 1..MaxModelRows}

\* hashing_feature: every value as a string, hashed into HashSize buckets
hashing_feature(X) == [i \in DOMAIN X |-> (2 * X[i] + 1) % HashSize]

\* estimator.fit(X, y) and estimator.predict_proba(X)[:, 1] (numerators of
\* probabilities over Denom)
fit(X, y) == [fitted |-> TRUE, positive |-> {X[i] : i \in {j \in DOMAIN X : y[j] = 1}}]
estimate(model, X) == [i \in DOMAIN X |-> IF X[i] \in model.positive THEN Denom - 1 ELSE 1]

\* train(X_train, y_train, X_valid, y_valid): the SGD model hashes the
\* features and fits (SGDClassifier.fit raises on labels of one class); the
\* LightGBM model reads category_columns, bound only when X_train is a
\* DataFrame.  self.model is assigned last.
train_model(object, X, y, is_frame) ==
    IF object.class = "SGDClassifierModel"
    THEN IF \A i, j \in DOMAIN y : y[i] = y[j]
         THEN [error |-> "ValueError", model |-> object.model]
         ELSE [error |-> "none", model |-> fit(hashing_feature(X), y)]
    ELSE IF ~is_frame
         THEN [error |-> "UnboundLocalError", model |-> object.model]
         ELSE [error |-> "none", model |-> fit(X, y)]

\* a predict_proba without the check of self.model
predict_proba_unguarded(object, X) ==
    IF object.class = "SGDClassifierModel"
    THEN [error |-> "none", result |-> estimate(object.model, hashing_feature(X))]
    ELSE [error |-> "none", result |-> estimate(object.model, X)]

\* predict_proba(X): ValueError while self.model is None; the SGD model
\* hashes X itself before it asks the estimator
predict_proba(object, X) ==
    IF object.model = NoModel
    THEN [error |-> "ValueError", result |-> <<>>]
    ELSE IF object.class = "SGDClassifierModel"
         THEN [error |-> "none", result |-> estimate(object.model, hashing_feature(X))]
         ELSE [error |-> "none", result |-> estimate(object.model, X)]

\* the file of a model: pickle.dump(self.model) or Booster.save_model
NoFile == [format |-> "none", model |-> NoModel]
serialize(object) ==
    [format |-> IF object.class = "SGDClassifierModel" THEN "pickle" ELSE "lightgbm",
     model |-> object.model]

\* save(file_path): ValueError while self.model is None, else the file
save(object, file) ==
    IF object.model = NoModel
    THEN [error |-> "ValueError", file |-> file]
    ELSE [error |-> "none", file |-> serialize(object)]

\* from_pretrained(s3_key): the download raises when there is no object;
\* else cls(model) with the model read from the file
from_pretrained(class, file) ==
    IF file = NoFile
    THEN [error |-> "ClientError", model |-> NoModel]
    ELSE [error |-> "none", model |-> file.model]

NoCall == [op |-> "none", error |-> "none", result |-> <<>>]

InitModel ==
    /\ model_object \in [class : ModelClasses, model : {NoModel}]
    /\ model_call = NoCall
    /\ model_file = NoFile
    /\ FeatureIdle
    /\ SchemaIdle
    /\ SplitIdle
    /\ PredictIdle
    /\ ValidateIdle
    /\ GateIdle
    /\ TrainIdle
    /\ ExtractIdle

ModelFrame ==
    UNCHANGED <<featureVars, schemaVars, splitVars, predictVars, validateVars,
                gateVars, trainVars, extractVars>>

ModelTrain ==
    /\ \E X \in FeatureTables, is_frame \in BOOLEAN : \E y \in [DOMAIN X -> Labels] :
          LET out == train_model(model_object, X, y, is_frame)
          IN  /\ model_object' = [model_object EXCEPT !.model = out.model]
              /\ model_call' = [op |-> "train", error |-> out.error, result |-> <<>>]
    /\ UNCHANGED model_file
    /\ ModelFrame

ModelPredictProba ==
    /\ \E X \in FeatureTables :
          LET out == predict_proba(model_object, X)
          IN  model_call' = [op |-> "predict_proba", error |-> out.error,
                             result |-> out.result]
    /\ UNCHANGED <<model_object, model_file>>
    /\ ModelFrame

ModelSave ==
    /\ LET out == save(model_object, model_file)
       IN  /\ model_file' = out.file
           /\ model_call' = [op |-> "save", error |-> out.error, result |-> <<>>]
    /\ UNCHANGED model_object
    /\ ModelFrame

\* the object is replaced by the one from_pretrained returns; when it raises
\* the caller keeps the object it had
ModelFromPretrained ==
    /\ LET out == from_pretrained(model_object.class, model_file)
       IN  /\ model_object' = IF out.error = "none"
                              THEN [model_object EXCEPT !.model = out.model]
                              ELSE model_object
           /\ model_call' = [op |-> "from_pretrained", error |-> out.error, result |-> <<>>]
    /\ UNCHANGED model_file
    /\ ModelFrame

NextModel == ModelTrain \/ ModelPredictProba \/ ModelSave \/ ModelFromPretrained

SpecModel == InitModel /\ [][NextModel]_vars

\* C28: a model object that has been neither trained nor loaded (model is
\* None) rejects predict_proba and save with an error and is left unchanged
\* by the failed call (no file is written either); once train or
\* from_pretrained has completed the object holds a model, and predict_proba
\* on raw features then succeeds with one probability per row.
C28_GuardedUntilFitted ==
    [][model_call' # model_call =>
          /\ (model_object.model = NoModel /\ model_call'.op \in {"predict_proba", "save"})
                => /\ model_call'.error = "ValueError"
                   /\ model_object' = model_object
                   /\ model_file' = model_file
          /\ (model_call'.op \in {"train", "from_pretrained"} /\ model_call'.error = "none")
                => model_object'.model # NoModel
          /\ (model_object.model # NoModel /\ model_call'.op = "predict_proba")
                => /\ model_call'.error = "none"
                   /\ Len(model_call'.result) > 0
                   /\ model_object' = model_object]_vars

\* predict_proba was rejected on a LightGBM object whose train had failed
\* before it assigned self.model
C28_Witness ==
    /\ model_object = [class |-> "LightGBMModel", model |-> NoModel]
    /\ model_call = [op |-> "predict_proba", error |-> "ValueError", result |-> <<>>]
    /\ model_file = NoFile

----------------------------------------------------------------------------
(* Registry and model storage access: mlops/aws/controller.py *)

ModelNames == {"sgd_classifier_ctr", "lightgbm_ctr"}
Versions == 0..MaxClock

\* put of one item / object under a key: a new key is added, an existing key
\* is replaced (DynamoDB put_item and S3 upload_file both replace by key)
Put(f, k, v) == [x \in DOMAIN f \cup {k} |-> IF x = k THEN v ELSE f[x]]

\* version keys registered under a model name
VersionsOf(reg, model) == {k[2] : k \in {x \in DOMAIN reg : x[1] = model}}

\* query(model = :model, ScanIndexForward=False, Limit=1): the first item in
\* descending order of the sort key; an empty result (IndexError on Items[0])
\* and a failed query are both caught and give None
get_latest_model_version(reg, model, query_ok) ==
    IF ~query_ok \/ VersionsOf(reg, model) = {} THEN None
    ELSE MaxOf(VersionsOf(reg, model))

\* Python's None in place of an S3 key (keys are <<model, version>> pairs)
NoKey == <<>>

\* query(model = :model AND version = :version): model_s3_path of the item,
\* None when no item or when the query fails
get_model_s3_key(reg, model, version, query_ok) ==
    IF ~query_ok \/ <<model, version>> \notin DOMAIN reg THEN NoKey
    ELSE reg[<<model, version>>].model_s3_path

----------------------------------------------------------------------------
(* Training run: train_with_feature_store.py main() *)

TrainRuns == 1..MaxTrainRuns

\* held-out test labels shared by the runs (same feature version)
y_test == <<1, 0>>

\* a model is represented by the probabilities it predicts for the test rows
TrainedModels == [1..Len(y_test) -> Probs]

InitialRun ==
    [pc |-> "start", model_name |-> "", version |-> None, y_pred |-> <<>>,
     latest_model_version |-> None, model_s3_key |-> NoKey, y_baseline |-> <<>>,
     is_update_model_version |-> "unset", failed |-> {}]

InitTrain ==
    /\ clock = 0
    /\ registry = <<>>
    /\ model_storage = <<>>
    /\ train = [r \in TrainRuns |-> InitialRun]
    /\ registered_by = {}
    /\ FeatureIdle
    /\ GateIdle
    /\ ExtractIdle
    /\ SchemaIdle
    /\ SplitIdle
    /\ ValidateIdle
    /\ ModelIdle
    /\ PredictIdle

\* the wall clock advances by one second
Tick ==
    /\ clock < MaxClock
    /\ clock' = clock + 1
    /\ UNCHANGED <<registry, model_storage, train, registered_by>>
    /\ UNCHANGED <<featureVars, schemaVars, splitVars, predictVars, validateVars, modelVars, gateVars, extractVars>>

\* an exception leaves main(): the run ends; failed records what failed
Abort(r, where) ==
    train' = [train EXCEPT ![r].pc = "aborted", ![r].failed = @ \cup {where}]

\* --ecs: the run is handed to an ECS task and main() returns
TrainOffload(r) ==
    /\ train[r].pc = "start"
    /\ train' = [train EXCEPT ![r].pc = "offloaded"]
    /\ UNCHANGED <<clock, registry, model_storage, registered_by>>
    /\ UNCHANGED <<featureVars, schemaVars, splitVars, predictVars, validateVars, modelVars, gateVars, extractVars>>

\* Setup: version = current_time.strftime("%Y%m%d%H%M%S")
TrainSetup(r) ==
    /\ train[r].pc = "start"
    /\ \E m \in ModelNames :
          train' = [train EXCEPT ![r].pc = "preprocess", ![r].model_name = m,
                                 ![r].version = clock]
    /\ UNCHANGED <<clock, registry, model_storage, registered_by>>
    /\ UNCHANGED <<featureVars, schemaVars, splitVars, predictVars, validateVars, modelVars, gateVars, extractVars>>

\* Preprocess Data: read the offline features, coerce, split; an error propagates
TrainPreprocess(r) ==
    /\ train[r].pc = "preprocess"
    /\ \/ train' = [train EXCEPT ![r].pc = "train"]
       \/ Abort(r, "preprocess")
    /\ UNCHANGED <<clock, registry, model_storage, registered_by>>
    /\ UNCHANGED <<featureVars, schemaVars, splitVars, predictVars, validateVars, modelVars, gateVars, extractVars>>

\* Train Model and Evaluate Model: model.train, predict_proba on the test rows,
\* calculate_metrics; an error propagates
TrainModel(r) ==
    /\ train[r].pc = "train"
    /\ \/ \E m \in TrainedModels :
             train' = [train EXCEPT ![r].pc = "get_latest", ![r].y_pred = m]
       \/ Abort(r, "train")
    /\ UNCHANGED <<clock, registry, model_storage, registered_by>>
    /\ UNCHANGED <<featureVars, schemaVars, splitVars, predictVars, validateVars, modelVars, gateVars, extractVars>>

\* latest_model_version = get_latest_model_version(...); None => register unconditionally
TrainGetLatest(r) ==
    /\ train[r].pc = "get_latest"
    /\ \E query_ok \in BOOLEAN :
          LET v == get_latest_model_version(registry, train[r].model_name, query_ok)
          IN  train' = [train EXCEPT
                  ![r].latest_model_version = v,
                  ![r].failed = IF query_ok THEN @ ELSE @ \cup {"get_latest_model_version"},
                  ![r].is_update_model_version = IF v = None THEN "True" ELSE "unset",
                  ![r].pc = IF v = None THEN "store" ELSE "get_s3_key"]
    /\ UNCHANGED <<clock, registry, model_storage, registered_by>>
    /\ UNCHANGED <<featureVars, schemaVars, splitVars, predictVars, validateVars, modelVars, gateVars, extractVars>>

\* model_s3_key = get_model_s3_key(...); None => raise ValueError
TrainGetS3Key(r) ==
    /\ train[r].pc = "get_s3_key"
    /\ \E query_ok \in BOOLEAN :
          LET k == get_model_s3_key(registry, train[r].model_name,
                                    train[r].latest_model_version, query_ok)
          IN  IF k = NoKey
              THEN Abort(r, "get_model_s3_key")
              ELSE train' = [train EXCEPT ![r].model_s3_key = k, ![r].pc = "load_baseline"]
    /\ UNCHANGED <<clock, registry, model_storage, registered_by>>
    /\ UNCHANGED <<featureVars, schemaVars, splitVars, predictVars, validateVars, modelVars, gateVars, extractVars>>

\* from_pretrained(s3_key) downloads model.pkl (an absent object or a failed
\* download raises), then the baseline scores the test rows and
\* is_model_better_than_baseline decides
TrainCompare(r) ==
    /\ train[r].pc = "load_baseline"
    /\ \/ /\ train[r].model_s3_key \in DOMAIN model_storage
          /\ LET yb == model_storage[train[r].model_s3_key]
                 better == is_model_better_than_baseline(train[r].y_pred, yb, y_test)
             IN  IF better = "ValueError"
                 THEN Abort(r, "is_model_better_than_baseline")
                 ELSE train' = [train EXCEPT
                          ![r].y_baseline = yb,
                          ![r].is_update_model_version = better,
                          ![r].pc = "store"]
       \/ Abort(r, "from_pretrained")
    /\ UNCHANGED <<clock, registry, model_storage, registered_by>>
    /\ UNCHANGED <<featureVars, schemaVars, splitVars, predictVars, validateVars, modelVars, gateVars, extractVars>>

\* Store Artifacts: local saves (an error propagates), then upload_dir_to_s3,
\* which logs and swallows a failed upload of model.pkl
TrainStore(r) ==
    /\ train[r].pc = "store"
    /\ \/ \E upload_ok \in BOOLEAN :
             /\ train' = [train EXCEPT
                     ![r].pc = "register",
                     ![r].failed = IF upload_ok THEN @ ELSE @ \cup {"upload_dir_to_s3"}]
             /\ model_storage' = IF upload_ok
                                 THEN Put(model_storage,
                                          <<train[r].model_name, train[r].version>>,
                                          train[r].y_pred)
                                 ELSE model_storage
       \/ /\ Abort(r, "store")
          /\ UNCHANGED model_storage
    /\ UNCHANGED <<clock, registry, registered_by>>
    /\ UNCHANGED <<featureVars, schemaVars, splitVars, predictVars, validateVars, modelVars, gateVars, extractVars>>

\* the item written by register_model_registry
RegistryItem(r) ==
    [model_s3_path |-> <<train[r].model_name, train[r].version>>,
     metrics |-> train[r].y_pred]

\* register_model_registry under "if is_update_model_version": put_item adds or
\* replaces the item keyed by (model, version); a failed put_item is logged
\* and swallowed
register_model_registry_always(r, put_ok) ==
    IF put_ok
    THEN /\ registry' = Put(registry, <<train[r].model_name, train[r].version>>,
                            RegistryItem(r))
         /\ registered_by' = registered_by \cup {r}
    ELSE UNCHANGED <<registry, registered_by>>

register_model_registry_needs_baseline(r, put_ok) ==
    IF train[r].is_update_model_version = "True" /\ put_ok
       /\ train[r].latest_model_version # None
    THEN /\ registry' = Put(registry, <<train[r].model_name, train[r].version>>,
                            RegistryItem(r))
         /\ registered_by' = registered_by \cup {r}
    ELSE UNCHANGED <<registry, registered_by>>

register_model_registry(r, put_ok) ==
    IF train[r].is_update_model_version = "True" /\ put_ok
    THEN /\ registry' = Put(registry, <<train[r].model_name, train[r].version>>,
                            RegistryItem(r))
         /\ registered_by' = registered_by \cup {r}
    ELSE UNCHANGED <<registry, registered_by>>

\* Register Model Registry
TrainRegister(r) ==
    /\ train[r].pc = "register"
    /\ \E put_ok \in BOOLEAN :
          /\ register_model_registry(r, put_ok)
          /\ train' = [train EXCEPT
                  ![r].pc = "done",
                  ![r].failed = IF put_ok \/ train[r].is_update_model_version # "True"
                                THEN @ ELSE @ \cup {"put_item"}]
    /\ UNCHANGED <<clock, model_storage>>
    /\ UNCHANGED <<featureVars, schemaVars, splitVars, predictVars, validateVars, modelVars, gateVars, extractVars>>

NextTrain ==
    \/ Tick
    \/ \E r \in TrainRuns : TrainOffload(r)
    \/ \E r \in TrainRuns : TrainSetup(r)
    \/ \E r \in TrainRuns : TrainPreprocess(r)
    \/ \E r \in TrainRuns : TrainModel(r)
    \/ \E r \in TrainRuns : TrainGetLatest(r)
    \/ \E r \in TrainRuns : TrainGetS3Key(r)
    \/ \E r \in TrainRuns : TrainCompare(r)
    \/ \E r \in TrainRuns : TrainStore(r)
    \/ \E r \in TrainRuns : TrainRegister(r)

SpecTrain == InitTrain /\ [][NextTrain]_vars

----------------------------------------------------------------------------
(* Claims about training runs and the model registry *)

RunKey(r) == <<train[r].model_name, train[r].version>>

\* C4: an entry (model name, version) is written to the registry only by a
\* run whose promotion gate approved (no baseline found, or
\* is_model_better_than_baseline returned true against the baseline it
\* loaded); a run whose gate rejected the challenger writes nothing.
C4_RegisterOnlyIfApproved ==
    [][registry' # registry =>
         \E r \in TrainRuns :
            /\ train[r].pc = "register" /\ train'[r].pc = "done"
            /\ train[r].is_update_model_version = "True"
            /\ \/ train[r].latest_model_version = None
               \/ /\ train[r].y_baseline # <<>>
                  /\ is_model_better_than_baseline(train[r].y_pred, train[r].y_baseline,
                                                   y_test) = "True"
            /\ registry' = Put(registry, RunKey(r), RegistryItem(r))]_vars

\* a run whose gate rejected has finished without writing, next to a registered run
C4_Witness ==
    \E r, q \in TrainRuns :
        /\ train[r].pc = "done"
        /\ train[r].is_update_model_version = "False"
        /\ r \notin registered_by
        /\ q \in registered_by
        /\ train[r].latest_model_version = train[q].version

CriticalFailures ==
    {"preprocess", "train", "get_latest_model_version", "get_model_s3_key",
     "from_pretrained", "is_model_better_than_baseline"}

\* C6: a failure on a critical path of a training run (feature computation,
\* training, or the promotion decision, which includes reading the baseline's
\* latest version and artifact location and scoring the baseline) aborts the
\* run, so that run registers no model version.
C6_CriticalFailureRegistersNothing ==
    \A r \in TrainRuns :
        train[r].failed \cap CriticalFailures # {} => r \notin registered_by

\* C7: the registry is append-only: no step of any run changes or removes an
\* entry that is already registered.
C7_AppendOnly ==
    [][\A k \in DOMAIN registry : k \in DOMAIN registry' /\ registry'[k] = registry[k]]_vars

\* C8: get_latest_model_version(model) returns the greatest version key among
\* the entries currently registered under the model name, and None exactly
\* when no entry is registered for it.
C8_LatestIsGreatest ==
    [][\A r \in TrainRuns :
         (train[r].pc = "get_latest" /\ train'[r].pc # "get_latest") =>
            LET vs == VersionsOf(registry, train[r].model_name)
            IN  /\ (train'[r].latest_model_version = None) <=> (vs = {})
                /\ vs # {} => /\ train'[r].latest_model_version \in vs
                              /\ \A v \in vs : v <= train'[r].latest_model_version]_vars

\* position of a run in main(): the stages in program order
StageRank(pc) ==
    CASE pc = "start" -> 0
      [] pc = "preprocess" -> 1
      [] pc = "train" -> 2
      [] pc = "get_latest" -> 3
      [] pc = "get_s3_key" -> 4
      [] pc = "load_baseline" -> 5
      [] pc = "store" -> 6
      [] pc = "register" -> 7
      [] pc = "done" -> 8
      [] OTHER -> 9

\* C26: the stages of one training invocation run strictly in the order
\* extract, transform, split, train, evaluate, persist, register, each
\* starting only after the previous one has completed; the registry write is
\* the last effect of the run, and if any stage fails no later stage runs.
C26_StagesInOrderFailStop ==
    [][\A r \in TrainRuns :
         train'[r] # train[r] =>
            /\ StageRank(train[r].pc) < StageRank(train'[r].pc)
            /\ train[r].failed = {}
            /\ registry' # registry => train'[r].pc = "done"]_vars

\* C29: every entry in the model registry points (model_s3_path) to a model
\* artifact that was uploaded to model storage before the entry was
\* registered, so that a predictor resolving the latest version can load it.
C29_RegisteredArtifactExists ==
    \A k \in DOMAIN registry : registry[k].model_s3_path \in DOMAIN model_storage

----------------------------------------------------------------------------
(* Feature-extraction run: feature_extraction.py main() *)

ExtractRuns == 1..MaxExtractRuns

\* what the warehouse returns to a run: impressions after the views' time
ExtractImpressionLogs ==
    SeqUpTo([user_id : Users, logged_at : 1..MaxTime \div 2], MaxExtractRows)
ExtractViewLogs ==
    SeqUpTo([user_id : Users, logged_at : {0}, item_id : Items], MaxExtractViews)

\* ONLINE_FEATURES of a feature row, with the run's version attached
\* (expired_at is current_time plus seven days, a function of the version);
\* a feature table joined with an empty item master carries no item
\* attribute, which is then missing
OnlineItem(row, version) ==
    [user_id |-> row.user_id,
     version |-> version,
     previous_impression_count |-> row.previous_impression_count,
     previous_view_count |-> row.previous_view_count,
     item_id |-> row.item_id,
     item_price |-> IF "item_price" \in DOMAIN row THEN row.item_price ELSE NA]

\* ascending=True would keep each user's row with the least logged_at
latest_per_user_ascending(df) ==
    LET users == {df[i].user_id : i \in DOMAIN df}
        best(u) == {i \in DOMAIN df :
                      /\ df[i].user_id = u
                      /\ \A j \in DOMAIN df :
                            df[j].user_id = u => df[i].logged_at <= df[j].logged_at}
    IN  {sel \in SUBSET (DOMAIN df) :
            /\ \A u \in users : Cardinality(sel \cap best(u)) = 1
            /\ \A i \in sel : i \in best(df[i].user_id)}

\* sort_values("logged_at", ascending=False).drop_duplicates("user_id", keep="first"):
\* for each user one row with the user's greatest logged_at; the sort is not
\* stable, so any of several rows with that timestamp may come first.
\* The result is the set of possible selections (sets of row indexes).
latest_per_user(df) ==
    LET users == {df[i].user_id : i \in DOMAIN df}
        best(u) == {i \in DOMAIN df :
                      /\ df[i].user_id = u
                      /\ \A j \in DOMAIN df :
                            df[j].user_id = u => df[j].logged_at <= df[i].logged_at}
    IN  {sel \in SUBSET (DOMAIN df) :
            /\ \A u \in users : Cardinality(sel \cap best(u)) = 1
            /\ \A i \in sel : i \in best(df[i].user_id)}

put_item_append(store, item) == store \cup {item}

\* DynamoDB put_item on the table keyed by (user_id, version), the key that
\* get_impression_feature queries: an item with the same key is replaced as a
\* whole, items under other keys stay
put_item(store, item) ==
    {x \in store : ~(x.user_id = item.user_id /\ x.version = item.version)} \cup {item}

\* the feature version a reader asks for: a version, or "latest"
Latest == -2

\* the record a reader gets for a stored item: the text of an "N" or "S"
\* attribute, np.nan for an attribute of any other type (a missing value is
\* stored as NULL)
Deserialized(item) == [k \in DOMAIN item |-> IF item[k] = NA THEN NaN ELSE ToStr(item[k])]

\* the record returned when nothing is found or the query fails: {}
EmptyRecord == [k \in {} |-> ToStr(NA)]

\* ScanIndexForward=True would return the user's least version first
OnlineFeatureStoreDynamoDB_get_impression_feature_ascending(table, version, user_id, query_ok) ==
    LET items == IF version = Latest
                 THEN {x \in table : x.user_id = user_id}
                 ELSE {x \in table : x.user_id = user_id /\ x.version = version}
    IN  IF ~query_ok \/ items = {}
        THEN EmptyRecord
        ELSE LET item == CHOOSE x \in items : \A y \in items : x.version <= y.version
             IN  Deserialized(item)

\* OnlineFeatureStoreDynamoDB.get_impression_feature: query the user's items,
\* for "latest" in descending order of the range key (version) with Limit 1,
\* else the item of the given version; the first item's attribute values come
\* back as strings; {} when there is no item or the query raises
OnlineFeatureStoreDynamoDB_get_impression_feature(table, version, user_id, query_ok) ==
    LET items == IF version = Latest
                 THEN {x \in table : x.user_id = user_id}
                 ELSE {x \in table : x.user_id = user_id /\ x.version = version}
    IN  IF ~query_ok \/ items = {}
        THEN EmptyRecord
        ELSE LET item == CHOOSE x \in items : \A y \in items : y.version <= x.version
             IN  Deserialized(item)

InitialExtract ==
    [pc |-> "start", version |-> None, df_impression_log |-> <<>>, df_view_log |-> <<>>,
     df_feature |-> <<>>, pending |-> {}, offline_written |-> FALSE, written |-> {},
     failed |-> {}]

InitExtract ==
    /\ clock = 0
    /\ offline_store = <<>>
    /\ online_store = {}
    /\ last_put = <<>>
    /\ extract = [e \in ExtractRuns |-> InitialExtract]
    /\ registry = <<>>
    /\ model_storage = <<>>
    /\ train = <<>>
    /\ registered_by = {}
    /\ FeatureIdle
    /\ GateIdle
    /\ SchemaIdle
    /\ SplitIdle
    /\ ValidateIdle
    /\ ModelIdle
    /\ PredictIdle

ExtractFrame ==
    UNCHANGED <<featureVars, schemaVars, splitVars, predictVars, validateVars, modelVars, gateVars,
                registry, model_storage, train, registered_by>>

\* the wall clock advances by one second
ExtractTick ==
    /\ clock < MaxClock
    /\ clock' = clock + 1
    /\ UNCHANGED extractVars
    /\ ExtractFrame

ExtractAbort(e, where) ==
    extract' = [extract EXCEPT ![e].pc = "aborted", ![e].failed = @ \cup {where}]

\* Setup: version = current_time.strftime("%Y%m%d%H%M%S")
ExtractSetup(e) ==
    /\ extract[e].pc = "start"
    /\ extract' = [extract EXCEPT ![e].pc = "extract", ![e].version = clock]
    /\ UNCHANGED <<clock, offline_store, online_store, last_put>>
    /\ ExtractFrame

\* Extract Data: three warehouse queries; an error propagates
ExtractData(e) ==
    /\ extract[e].pc = "extract"
    /\ \/ \E imps \in ExtractImpressionLogs, views \in ExtractViewLogs :
             extract' = [extract EXCEPT ![e].pc = "validate",
                                        ![e].df_impression_log = imps,
                                        ![e].df_view_log = views]
       \/ ExtractAbort(e, "extract")
    /\ UNCHANGED <<clock, offline_store, online_store, last_put>>
    /\ ExtractFrame

\* the three validated tables, in the order main() validates them
ValidatedTables == {"impression_log", "view_log", "mst_item"}

\* a validation error that is logged and swallowed, the run going on
ExtractValidateAndPreprocess_swallow(e) ==
    /\ extract[e].pc = "validate"
    /\ \E errors \in SUBSET ValidatedTables :
          extract' = [extract EXCEPT
              ![e].pc = "offline",
              ![e].failed = @ \cup errors,
              ![e].df_feature = get_impression_feature(extract[e].df_impression_log,
                                                       extract[e].df_view_log, MaxLookback)]
    /\ UNCHANGED <<clock, offline_store, online_store, last_put>>
    /\ ExtractFrame

\* Validate Data: the three schema validations (on columns outside this
\* model) pass, or the first failing one raises; Preprocess Data:
\* get_impression_feature
ExtractValidateAndPreprocess(e) ==
    /\ extract[e].pc = "validate"
    /\ \/ extract' = [extract EXCEPT
              ![e].pc = "offline",
              ![e].df_feature = get_impression_feature(extract[e].df_impression_log,
                                                       extract[e].df_view_log, MaxLookback)]
       \/ \E table \in ValidatedTables : ExtractAbort(e, table)
    /\ UNCHANGED <<clock, offline_store, online_store, last_put>>
    /\ ExtractFrame

\* Save Offline Feature Store: upload_file_to_s3 under
\* impression_feature/version={version}/df_feature.csv; a failed upload is
\* logged and swallowed.  Then the online rows are selected.
ExtractSaveOffline(e) ==
    /\ extract[e].pc = "offline"
    /\ \E upload_ok \in BOOLEAN, sel \in latest_per_user(extract[e].df_feature) :
          /\ offline_store' = IF upload_ok
                              THEN Put(offline_store, extract[e].version, extract[e].df_feature)
                              ELSE offline_store
          /\ extract' = [extract EXCEPT
                 ![e].pc = "online",
                 ![e].offline_written = upload_ok,
                 ![e].failed = IF upload_ok THEN @ ELSE @ \cup {"upload_file_to_s3"},
                 ![e].pending = {OnlineItem(extract[e].df_feature[i], extract[e].version) :
                                    i \in sel}]
    /\ UNCHANGED <<clock, online_store, last_put>>
    /\ ExtractFrame

\* Save Online Feature Store: put_csv_to_dynamodb writes the items one request
\* after another; an error propagates and leaves the items already written
ExtractPutOnline(e) ==
    /\ extract[e].pc = "online"
    /\ extract[e].pending # {}
    /\ \/ \E item \in extract[e].pending :
             /\ online_store' = put_item(online_store, item)
             /\ last_put' = Put(last_put, <<item.user_id, item.version>>, item)
             /\ extract' = [extract EXCEPT ![e].pending = @ \ {item},
                                        ![e].written = @ \cup {item}]
       \/ /\ ExtractAbort(e, "put_csv_to_dynamodb")
          /\ UNCHANGED <<online_store, last_put>>
    /\ UNCHANGED <<clock, offline_store>>
    /\ ExtractFrame

ExtractFinish(e) ==
    /\ extract[e].pc = "online"
    /\ extract[e].pending = {}
    /\ extract' = [extract EXCEPT ![e].pc = "done"]
    /\ UNCHANGED <<clock, offline_store, online_store, last_put>>
    /\ ExtractFrame

NextExtract ==
    \/ ExtractTick
    \/ \E e \in ExtractRuns : ExtractSetup(e)
    \/ \E e \in ExtractRuns : ExtractData(e)
    \/ \E e \in ExtractRuns : ExtractValidateAndPreprocess(e)
    \/ \E e \in ExtractRuns : ExtractSaveOffline(e)
    \/ \E e \in ExtractRuns : ExtractPutOnline(e)
    \/ \E e \in ExtractRuns : ExtractFinish(e)

SpecExtract == InitExtract /\ [][NextExtract]_vars

----------------------------------------------------------------------------
(* Claims about feature-extraction runs and the feature stores *)

\* C9: any two feature-extraction runs, concurrent ones included, write their
\* offline partitions under distinct version keys, so no run overwrites the
\* offline partition written by another run.
C9_DistinctOfflineVersions ==
    \A e1, e2 \in ExtractRuns :
        (e1 # e2 /\ extract[e1].offline_written /\ extract[e2].offline_written)
        => extract[e1].version # extract[e2].version

\* C10 as stated: the online store holds at most one record per user id.
C10_OneRecordPerUser ==
    \A x, y \in online_store : x.user_id = y.user_id => x = y

\* C10 as amended: the online store holds at most one record per
\* (user id, version): a later write under the same user id and version
\* replaces the earlier record entirely, and the record held equals the later
\* write; records of the same user under other versions are kept.
C10_OneRecordPerUserAndVersion ==
    /\ \A x, y \in online_store :
          (x.user_id = y.user_id /\ x.version = y.version) => x = y
    /\ \A x \in online_store :
          /\ <<x.user_id, x.version>> \in DOMAIN last_put
          /\ x = last_put[<<x.user_id, x.version>>]
    /\ \A k \in DOMAIN last_put : last_put[k] \in online_store

\* two runs of the same second wrote different records for one user: one record
\* is held under that key; and the user also has a record under another version
C10_Witness ==
    \E e1, e2 \in ExtractRuns : \E x \in online_store :
        /\ e1 # e2
        /\ extract[e1].pc = "done" /\ extract[e2].pc = "done"
        /\ extract[e1].version = extract[e2].version
        /\ x.version = extract[e1].version
        /\ \E i \in DOMAIN extract[e1].df_feature, j \in DOMAIN extract[e2].df_feature :
              /\ extract[e1].df_feature[i].user_id = x.user_id
              /\ extract[e2].df_feature[j].user_id = x.user_id
              /\ OnlineItem(extract[e1].df_feature[i], x.version) # x
              /\ OnlineItem(extract[e2].df_feature[j], x.version) = x
        /\ Cardinality({y \in online_store : y.user_id = x.user_id}) = 1


\* a write of run e lands in this step: one pending item leaves the batch
Lands(e, item) ==
    /\ extract[e].pc = "online"
    /\ item \in extract[e].pending
    /\ extract'[e].pending = extract[e].pending \ {item}

\* C11 as stated: whenever a write of a run lands for a user id, a subsequent
\* read of that user's "latest" online record returns the record just written
\* (the write that landed last wins, whatever the interleaving of the runs).
C11_LatestIsLastWrite ==
    [][\A e \in ExtractRuns : \A item \in extract[e].pending :
          Lands(e, item) =>
             OnlineFeatureStoreDynamoDB_get_impression_feature(
                 online_store', Latest, item.user_id, TRUE) = Deserialized(item)]_vars

\* C11 as amended: after a write lands for a user id, a successful read of the
\* user's "latest" record returns the user's record of the greatest version
\* held by the store, and that is the record just written only if no record
\* of a greater version is held; a read of the written version returns the
\* record just written (last writer wins within one version).
C11_LatestIsGreatestVersion ==
    [][\A e \in ExtractRuns : \A item \in extract[e].pending :
          Lands(e, item) =>
             LET mine == {x \in online_store' : x.user_id = item.user_id}
                 read == OnlineFeatureStoreDynamoDB_get_impression_feature(
                             online_store', Latest, item.user_id, TRUE)
             IN  /\ \E x \in mine : /\ read = Deserialized(x)
                                    /\ \A y \in mine : y.version <= x.version
                 /\ (read = Deserialized(item)) <=> (\A y \in mine : y.version <= item.version)
                 /\ OnlineFeatureStoreDynamoDB_get_impression_feature(
                        online_store', item.version, item.user_id, TRUE) = Deserialized(item)]_vars

\* two finished runs of different versions both wrote a record for one user,
\* and the "latest" read returns the record of the greater version
C11_Witness ==
    \E e1, e2 \in ExtractRuns : \E x, y \in online_store :
        /\ extract[e1].pc = "done" /\ extract[e2].pc = "done"
        /\ x.user_id = y.user_id
        /\ x.version = extract[e1].version /\ y.version = extract[e2].version
        /\ x.version < y.version
        /\ OnlineFeatureStoreDynamoDB_get_impression_feature(
               online_store, Latest, x.user_id, TRUE) = Deserialized(y)


Ended(e) == extract[e].pc \in {"done", "aborted"}

\* C12: the stores stay mutually consistent across feature-extraction runs:
\* whenever the online store holds a record carrying version v, the offline
\* store holds the partition for version v, written by the same run; and once
\* a run has ended its two projections are both present or both absent.
C12_StoresConsistent ==
    /\ \A x \in online_store : x.version \in DOMAIN offline_store
    /\ \A e \in ExtractRuns :
          Ended(e) =>
             /\ extract[e].written # {} =>
                   /\ extract[e].offline_written
                   /\ offline_store[extract[e].version] = extract[e].df_feature
             /\ extract[e].offline_written => extract[e].pending = {}

\* C13: if any of the three input tables (impression log, view log, item
\* master) fails schema validation in a feature-extraction run, the run aborts
\* at once and that run has written nothing to the offline store nor to the
\* online store.
C13_ValidationFailureWritesNothing ==
    \A e \in ExtractRuns :
        extract[e].failed \cap ValidatedTables # {} =>
            /\ extract[e].pc = "aborted"
            /\ ~extract[e].offline_written
            /\ extract[e].written = {}
            /\ extract[e].pending = {}
            /\ extract[e].df_feature = <<>>

\* a run failed validation on non-empty input while another run of the same
\* second went through and wrote to both stores
C13_Witness ==
    \E e1, e2 \in ExtractRuns :
        /\ extract[e1].failed \cap ValidatedTables # {}
        /\ extract[e1].df_impression_log # <<>>
        /\ extract[e2].pc = "done"
        /\ extract[e2].version = extract[e1].version
        /\ extract[e2].offline_written
        /\ extract[e2].written # {}


\* C22: within one feature-extraction run that finishes, exactly one online
\* record is written for each user id present in the batch (and none for any
\* other user), and it is the feature row, restricted to the online columns
\* and stamped with the run's version, of an impression of that user with the
\* greatest logged_at in the batch.
C22_OneLatestRecordPerUser ==
    \A e \in ExtractRuns :
        extract[e].pc = "done" =>
            LET ft == extract[e].df_feature
                imps == extract[e].df_impression_log
                users == {imps[i].user_id : i \in DOMAIN imps}
            IN  /\ {x.user_id : x \in extract[e].written} = users
                /\ \A u \in users :
                      /\ Cardinality({x \in extract[e].written : x.user_id = u}) = 1
                      /\ \A x \in extract[e].written :
                            x.user_id = u =>
                               \E i \in DOMAIN ft :
                                  /\ ft[i].user_id = u
                                  /\ \A j \in DOMAIN imps :
                                        imps[j].user_id = u =>
                                            imps[j].logged_at <= ft[i].logged_at
                                  /\ x = OnlineItem(ft[i], extract[e].version)

\* a finished run whose batch lists a user's later impression before the
\* earlier one: one record, that of the later impression
C22_Witness ==
    \E e \in ExtractRuns :
        /\ extract[e].pc = "done"
        /\ Len(extract[e].df_impression_log) = 2
        /\ extract[e].df_impression_log[1].user_id = extract[e].df_impression_log[2].user_id
        /\ extract[e].df_impression_log[1].logged_at > extract[e].df_impression_log[2].logged_at
        /\ Cardinality(extract[e].written) = 1
        /\ \A x \in extract[e].written : x.previous_impression_count = 1

----------------------------------------------------------------------------
(* Online prediction: predictor.py predict(), against the online store     *)

\* the schema entries of sgd_classifier_ctr this model carries, in the
\* declared order: time, request, history and item features
PredictSchemas ==
    <<[name |-> "impression_hour", dtype |-> "int", null_value |-> IntCell(-1)],
      [name |-> "user_id", dtype |-> "int", null_value |-> IntCell(-1)],
      [name |-> "os_version", dtype |-> "str", null_value |-> Word("null")],
      [name |-> "previous_impression_count", dtype |-> "int", null_value |-> IntCell(-1)],
      [name |-> "previous_view_count", dtype |-> "int", null_value |-> IntCell(-1)],
      [name |-> "item_id", dtype |-> "int", null_value |-> IntCell(-1)],
      [name |-> "item_price", dtype |-> "int", null_value |-> IntCell(-1)]>>

\* the same entries of lightgbm_ctr: the identifiers are of dtype "category"
LightGBMSchemas ==
    <<[name |-> "impression_hour", dtype |-> "int", null_value |-> IntCell(-1)],
      [name |-> "user_id", dtype |-> "category", null_value |-> IntCell(-1)],
      [name |-> "os_version", dtype |-> "category", null_value |-> Word("null")],
      [name |-> "previous_impression_count", dtype |-> "int", null_value |-> IntCell(-1)],
      [name |-> "previous_view_count", dtype |-> "int", null_value |-> IntCell(-1)],
      [name |-> "item_id", dtype |-> "category", null_value |-> IntCell(-1)],
      [name |-> "item_price", dtype |-> "int", null_value |-> IntCell(-1)]>>

\* get_model_config(model_name).schemas
get_model_config(model_name) ==
    IF model_name = "lightgbm_ctr" THEN LightGBMSchemas ELSE PredictSchemas

HistoryAndItemFeatures ==
    {"previous_impression_count", "previous_view_count", "item_id", "item_price"}

\* AdRequest: logged_at is a string; -1 stands for one that is no timestamp
AdRequests == [user_id : Users, os_version : {"old"}, logged_at : (-1)..MaxRequestTime]

\* items a feature-extraction run can have written: the item of the last view
\* is there exactly when a view was counted, its price only if it is
StoredItems ==
    {x \in [user_id : Users, version : Versions,
            previous_impression_count : {NA, 1}, previous_view_count : {NA, 1},
            item_id : {NA, 1}, item_price : {NA, 1}] :
        /\ (x.item_id = NA) <=> (x.previous_view_count = NA)
        /\ x.item_id = NA => x.item_price = NA}

\* contents of the online table with up to n items: at most one item per
\* (user_id, version)
OnlineStores(n) ==
    {st \in UNION {{Range(f) : f \in [1..k -> StoredItems]} : k \in 0..n} :
        \A x, y \in st : (x.user_id = y.user_id /\ x.version = y.version) => x = y}

\* the order in which the attributes of a returned record become columns
RecordColumns ==
    <<"user_id", "version", "previous_impression_count", "previous_view_count",
      "item_id", "item_price">>

\* pd.DataFrame([ad_request.model_dump()]): one row of the request's fields
request_frame(req) ==
    [columns |-> <<"logged_at", "user_id", "os_version">>,
     rows |-> <<[logged_at |-> IntCell(req.logged_at),
                 user_id |-> IntCell(req.user_id),
                 os_version |-> Word(req.os_version)]>>]

\* df.assign(**user_feature): a key that is a column replaces it, any other
\* key becomes a new column
assign(df, record) ==
    LET new == SelectSeq(RecordColumns,
                         LAMBDA c : c \in DOMAIN record /\ c \notin Range(df.columns))
        columns == df.columns \o new
    IN  [columns |-> columns,
         rows |-> [r \in DOMAIN df.rows |->
                     [c \in Range(columns) |->
                         IF c \in DOMAIN record THEN record[c] ELSE df.rows[r][c]]]]

\* add_impression_time_feature(df, "logged_at") of the request row
add_impression_time_feature(df) ==
    [columns |-> df.columns \o <<"impression_hour">>,
     rows |-> [r \in DOMAIN df.rows |->
                 df.rows[r] @@
                 ("impression_hour" :> IntCell(df.rows[r]["logged_at"].n % TicksPerDay))]]

\* a request state that looks the latest version up again on every request
request_state_latest(app, reg, storage) ==
    LET latest == get_latest_model_version(reg, app.model_name, TRUE)
        key == get_model_s3_key(reg, app.model_name, latest, TRUE)
    IN  IF latest # None /\ key \in DOMAIN storage
        THEN [model_version |-> latest, model |-> storage[key]]
        ELSE [model_version |-> app.model_version, model |-> app.model]

\* request.state of a request: the model that lifespan loaded and yielded,
\* and the model_version its log_prediction closure captured
request_state(app, reg, storage) ==
    [model_version |-> app.model_version, model |-> app.model]

\* a predictor process that started on version 0 of sgd_classifier_ctr
RunningApp ==
    [pc |-> "running", model_name |-> "sgd_classifier_ctr", model_version |-> 0,
     model |-> <<1, 1>>]

InitPredict ==
    /\ online_store \in OnlineStores(MaxStoreItems)
    /\ feature_version \in {Latest} \cup Versions
    /\ ad_request = [user_id |-> 0, os_version |-> "", logged_at |-> 0]
    /\ user_feature = <<>>
    /\ lookup = "none"
    /\ response = Unset
    /\ app_state = RunningApp
    /\ prediction = NoPrediction
    /\ clock = 0
    /\ offline_store = <<>>
    /\ last_put = <<>>
    /\ extract = <<>>
    /\ registry = <<>>
    /\ model_storage = <<>>
    /\ train = <<>>
    /\ registered_by = {}
    /\ FeatureIdle
    /\ SchemaIdle
    /\ SplitIdle
    /\ ValidateIdle
    /\ ModelIdle
    /\ GateIdle

\* POST /predict of a running process: the request row, the user's record of
\* the online store assigned onto it, the time feature, the schema coercion,
\* predict_proba of request.state.model, log_prediction.
\* pd.to_datetime raises on a logged_at that is no timestamp.
Predict ==
    /\ app_state.pc = "running"
    /\ \E req \in AdRequests, query_ok \in BOOLEAN :
          LET record == OnlineFeatureStoreDynamoDB_get_impression_feature(
                            online_store, feature_version, req.user_id, query_ok)
              df == assign(request_frame(req), record)
              out == IF req.logged_at < 0
                     THEN [error |-> "ValueError", df |-> EmptyTable]
                     ELSE predict_coercion(add_impression_time_feature(df),
                                          get_model_config(app_state.model_name))
          IN  /\ ad_request' = req
              /\ user_feature' = record
              /\ lookup' = IF ~query_ok THEN "failed"
                           ELSE IF DOMAIN record = {} THEN "miss" ELSE "hit"
              /\ response' = out
              /\ prediction' = IF out.error = "none"
                               THEN request_state(app_state, registry, model_storage)
                               ELSE prediction
    /\ UNCHANGED <<feature_version, app_state, online_store, clock, offline_store,
                   last_put, extract>>
    /\ UNCHANGED <<featureVars, schemaVars, splitVars, validateVars, modelVars, gateVars,
                   registry, model_storage, train, registered_by>>

NextPredict == Predict

SpecPredict == InitPredict /\ [][NextPredict]_vars

\* the user's items a lookup under feature_version can return
Visible(user_id) ==
    {x \in online_store :
        /\ x.user_id = user_id
        /\ feature_version # Latest => x.version = feature_version}

\* C20: when the online store has no record for the request's user id, or the
\* lookup itself fails, the request (with a logged_at that is a timestamp)
\* does not fail: every history and item feature is filled with its schema
\* default and the row of declared columns is handed to the model, whose
\* prediction is returned.
C20_DegradesGracefully ==
    /\ (lookup # "none" /\ Visible(ad_request.user_id) = {}) => lookup \in {"miss", "failed"}
    /\ (lookup \in {"miss", "failed"} /\ ad_request.logged_at >= 0) =>
          /\ DOMAIN user_feature = {}
          /\ response.error = "none"
          /\ response.df.columns = [i \in DOMAIN PredictSchemas |-> PredictSchemas[i].name]
          /\ \A i \in DOMAIN PredictSchemas :
                PredictSchemas[i].name \in HistoryAndItemFeatures =>
                    response.df.rows[1][PredictSchemas[i].name] = PredictSchemas[i].null_value
          /\ response.df.rows[1]["user_id"] = IntCell(ad_request.user_id)
          /\ response.df.rows[1]["os_version"] = Word(ad_request.os_version)

\* a request was answered with defaults after a failed lookup although the
\* store holds a record with history and item features for the user
C20_Witness ==
    /\ lookup = "failed"
    /\ response.error = "none"
    /\ \E x \in Visible(ad_request.user_id) :
          x.previous_impression_count = 1 /\ x.item_price = 1
    /\ response.df.rows[1]["item_price"] = IntCell(-1)

----------------------------------------------------------------------------
(* Serving against a store written by a feature-extraction run:            *)
(* feature_extraction.py 115-148, then predictor.py predict()              *)

\* validated item masters of the batch
ServeItemMasters ==
    {items \in SeqUpTo(ItemRows, MaxServeItemRows) : MST_ITEM_SCHEMA(items)}

\* running processes of the two configured models, started on version 0
ServingApps == {[RunningApp EXCEPT !.model_name = name] : name \in ModelNames}

\* the stores after the run of version 0 over a batch: the offline partition
\* holds the feature table, the online table the items of the selected rows
\* that were put before the run ended
InitServe ==
    /\ \E imps \in SeqUpTo(PrepImpressionRows, MaxPrepImpressions),
          views \in SeqUpTo(PrepViewRows, MaxPrepViews),
          items \in ServeItemMasters :
          LET batch_feature == get_impression_feature_with_item(imps, views, items, MaxLookback)
          IN  \E sel \in latest_per_user(batch_feature) :
                 /\ offline_store = (0 :> batch_feature)
                 /\ online_store \in SUBSET {OnlineItem(batch_feature[i], 0) : i \in sel}
    /\ feature_version \in {Latest, 0}
    /\ app_state \in ServingApps
    /\ ad_request = [user_id |-> 0, os_version |-> "", logged_at |-> 0]
    /\ user_feature = <<>>
    /\ lookup = "none"
    /\ response = Unset
    /\ prediction = NoPrediction
    /\ clock = 0
    /\ last_put = <<>>
    /\ extract = <<>>
    /\ registry = <<>>
    /\ model_storage = <<>>
    /\ train = <<>>
    /\ registered_by = {}
    /\ FeatureIdle
    /\ SchemaIdle
    /\ SplitIdle
    /\ ValidateIdle
    /\ ModelIdle
    /\ GateIdle

NextServe == Predict

SpecServe == InitServe /\ [][NextServe]_vars

\* the schema entry of a feature of the served model
SchemaOf(name) ==
    LET ss == get_model_config(app_state.model_name)
    IN  ss[CHOOSE i \in DOMAIN ss : ss[i].name = name]

\* the value apply_schema gives the training input for an offline value
OfflineValue(name, v) ==
    astype(fillna(IF v = NA THEN NaN ELSE IntCell(v), SchemaOf(name).null_value),
           SchemaOf(name).dtype)

\* the rows of the batch that are a latest impression of the user
LatestImpressions(df, user_id) ==
    {i \in DOMAIN df :
        /\ df[i].user_id = user_id
        /\ \A j \in DOMAIN df : df[j].user_id = user_id => df[j].logged_at <= df[i].logged_at}

\* C27: when a request finds the user's record in the online store, every
\* history-aggregate and item feature handed to the model is the coerced
\* value of the record, and equals the value that the schema coercion gives
\* for the offline feature row of a latest impression of that user in the
\* batch that wrote the record; the impression-time feature comes from the
\* request's logged_at.
C27_ServingParity ==
    (lookup = "hit" /\ response.error = "none") =>
        LET row == response.df.rows[1]
            batch == offline_store[user_feature["version"].n]
        IN  /\ \A c \in HistoryAndItemFeatures :
                  row[c] = astype(fillna(user_feature[c], SchemaOf(c).null_value),
                                  SchemaOf(c).dtype)
            /\ \E i \in LatestImpressions(batch, ad_request.user_id) :
                  \A c \in HistoryAndItemFeatures : row[c] = OfflineValue(c, batch[i][c])
            /\ row["impression_hour"] = IntCell(ad_request.logged_at % TicksPerDay)

----------------------------------------------------------------------------
(* Predictor process: predictor.py lifespan() and predict(), while training *)
(* runs of other processes register new versions                            *)

\* MODEL_NAME and MODEL_VERSION of the environment, before lifespan has run
StartingApps ==
    [pc : {"starting"}, model_name : ModelNames, model_version : {Latest} \cup Versions,
     model : {<<>>}]

\* the models a training run can have fitted
ServedModels == {<<1, 1>>, <<Denom - 1, Denom - 1>>}

\* lifespan up to its yield: "latest" is resolved by get_latest_model_version
\* (None raises ValueError), the location by get_model_s3_key (None raises
\* ValueError), the model by from_pretrained (the download raises when the
\* object is missing or S3 fails)
lifespan(app, reg, storage, version_ok, key_ok, download_ok) ==
    LET model_version == IF app.model_version = Latest
                         THEN get_latest_model_version(reg, app.model_name, version_ok)
                         ELSE app.model_version
        model_s3_key == IF model_version = None THEN NoKey
                        ELSE get_model_s3_key(reg, app.model_name, model_version, key_ok)
    IN  IF model_version = None \/ model_s3_key = NoKey
           \/ model_s3_key \notin DOMAIN storage \/ ~download_ok
        THEN [app EXCEPT !.pc = "failed"]
        ELSE [app EXCEPT !.pc = "running", !.model_version = model_version,
                         !.model = storage[model_s3_key]]

InitPredictor ==
    /\ app_state \in StartingApps
    /\ prediction = NoPrediction
    /\ online_store = {}
    /\ feature_version = Latest
    /\ ad_request = [user_id |-> 0, os_version |-> "", logged_at |-> 0]
    /\ user_feature = <<>>
    /\ lookup = "none"
    /\ response = Unset
    /\ clock = 0
    /\ registry = <<>>
    /\ model_storage = <<>>
    /\ train = <<>>
    /\ registered_by = {}
    /\ offline_store = <<>>
    /\ last_put = <<>>
    /\ extract = <<>>
    /\ FeatureIdle
    /\ SchemaIdle
    /\ SplitIdle
    /\ ValidateIdle
    /\ ModelIdle
    /\ GateIdle

\* the process starts: lifespan runs once, to its yield or to an exception
Lifespan ==
    /\ app_state.pc = "starting"
    /\ \E version_ok, key_ok, download_ok \in BOOLEAN :
          app_state' = lifespan(app_state, registry, model_storage,
                                version_ok, key_ok, download_ok)
    /\ UNCHANGED <<feature_version, ad_request, user_feature, lookup, response, prediction>>
    /\ UNCHANGED <<featureVars, schemaVars, splitVars, validateVars, modelVars, gateVars,
                   trainVars, extractVars>>

\* the end of a training run of another process (train_with_feature_store.py
\* 194-245): the artifact directory is uploaded under the version of the
\* run's start second, a failed upload being swallowed, and the registry item
\* pointing to it is put (its metrics, which the predictor never reads, are
\* left out)
RegisterVersion ==
    /\ \E name \in ModelNames, model \in ServedModels, upload_ok \in BOOLEAN :
          /\ model_storage' = IF upload_ok
                              THEN Put(model_storage, <<name, clock>>, model)
                              ELSE model_storage
          /\ registry' = Put(registry, <<name, clock>>,
                             [model_s3_path |-> <<name, clock>>, metrics |-> <<>>])
    /\ UNCHANGED <<clock, train, registered_by>>
    /\ UNCHANGED <<featureVars, schemaVars, splitVars, predictVars, validateVars,
                   modelVars, gateVars, extractVars>>

NextPredictor == Lifespan \/ RegisterVersion \/ Tick \/ Predict

SpecPredictor == InitPredictor /\ [][NextPredictor]_vars

\* C30: the predictor resolves its model version once, at startup: it starts
\* only with a version and an artifact location found in the registry and
\* the model loaded from there, and fails to start when the registry has no
\* version for "latest" or no item for the version; once it runs, no request
\* and no later registration changes the model and version it serves, and
\* every answered request is logged with exactly that model and version.
C30_ModelFixedAtStartup ==
    [][/\ app_state.pc \in {"running", "failed"} => app_state' = app_state
       /\ app_state.pc # "running" => prediction' = prediction
       /\ prediction' # prediction =>
             prediction' = [model_version |-> app_state.model_version,
                            model |-> app_state.model]
       /\ (app_state.pc = "starting" /\ app_state'.pc = "running") =>
             /\ app_state'.model_name = app_state.model_name
             /\ <<app_state.model_name, app_state'.model_version>> \in DOMAIN registry
             /\ app_state.model_version = Latest =>
                   app_state'.model_version = MaxOf(VersionsOf(registry, app_state.model_name))
             /\ app_state.model_version # Latest =>
                   app_state'.model_version = app_state.model_version
             /\ app_state'.model =
                   model_storage[registry[<<app_state.model_name,
                                            app_state'.model_version>>].model_s3_path]
       /\ (/\ app_state.pc = "starting"
           /\ app_state' # app_state
           /\ \/ app_state.model_version = Latest
                    /\ VersionsOf(registry, app_state.model_name) = {}
              \/ app_state.model_version # Latest
                    /\ <<app_state.model_name, app_state.model_version>> \notin DOMAIN registry)
             => app_state'.pc = "failed"]_vars

\* a process that started on "latest" = version 0 answers a request with
\* version 0 and its model after version 1, with another model, was registered
C30_Witness ==
    /\ app_state.pc = "running"
    /\ app_state.model_version = 0
    /\ lookup # "none"
    /\ prediction = [model_version |-> 0, model |-> app_state.model]
    /\ get_latest_model_version(registry, app_state.model_name, TRUE) = 1
    /\ <<app_state.model_name, 1>> \in DOMAIN model_storage
    /\ model_storage[<<app_state.model_name, 1>>] # app_state.model

====
